---- MODULE Spec2Model ----
(***************************************************************************)
(* G2-Gmail: the navigation state machine (src/src/app/state.ts), the      *)
(* controller that drives it (src/unnamed/part_001) and the page start-up  *)
(* flow that calls the controller (src/src/main.ts).                       *)
(*                                                                         *)
(* JavaScript runs one flow at a time and switches flows only at an await, *)
(* so every action below is the code between two awaits of one flow.       *)
(***************************************************************************)
EXTENDS Integers, Sequences, FiniteSets, TLC

(***************************************************************************)
(* Bounds of the model.                                                    *)
(***************************************************************************)
\* gestures that may wait in the promise chain behind the running handler
MaxQueue == 2
\* messages in the mailbox of one label
MaxMessages == 2

(***************************************************************************)
(* Program constants.                                                      *)
(***************************************************************************)
LINES_PER_PAGE == 8
MESSAGES_PER_PAGE == 8
\* From, To, Date, Subject and a blank line, prepended by openMessage
HeaderLineCount == 5

SYSTEM_LABELS ==
  << [id |-> "INBOX", name |-> "Inbox"],
     [id |-> "STARRED", name |-> "Starred"],
     [id |-> "SENT", name |-> "Sent"],
     [id |-> "DRAFT", name |-> "Drafts"],
     [id |-> "SPAM", name |-> "Spam"],
     [id |-> "TRASH", name |-> "Trash"],
     [id |-> "IMPORTANT", name |-> "Important"],
     [id |-> "UNREAD", name |-> "Unread"] >>

AppMode == {"BOOT", "AUTH_REQUIRED", "LABELS", "MESSAGE_LIST", "READER", "ERROR"}

GestureKind ==
  {"SCROLL_FWD", "SCROLL_BACK", "TAP", "DOUBLE_TAP", "FOREGROUND_ENTER", "FOREGROUND_EXIT"}

\* errorMessage: string | null
NULL == "<null>"
\* nextPageToken?: string -- undefined (or "") is the empty sequence, a token <<k>>
undefined == << >>
\* "" for currentLabelId and currentLabelName
EmptyString == ""
\* "" for currentMessageId and currentSubject (a message id is a sequence << i >>)
EmptyId == << >>
\* "" as a display line; the lines of a message are the numbers 1, 2, ...
EmptyLine == 0

(***************************************************************************)
(* Helpers.                                                                *)
(***************************************************************************)
Min(a, b) == IF a <= b THEN a ELSE b
Max(a, b) == IF a >= b THEN a ELSE b

\* Array.prototype.slice(from, to) on a sequence, 0-based as in the source
Slice(seq, from, to) ==
  LET lo == from + 1
      hi == Min(to, Len(seq))
  IN  IF hi < lo THEN << >> ELSE SubSeq(seq, lo, hi)

\* a nullable object: null is the empty sequence, an object x is << x >>
null == << >>
\* arr[i] ?? null, 0-based
At(seq, i) == IF i >= 0 /\ i < Len(seq) THEN << seq[i + 1] >> ELSE null

\* Array.prototype.sort is stable: pairs <<key, value>> by ascending key
RECURSIVE InsertPair(_, _)
InsertPair(sorted, p) ==
  IF sorted = << >> THEN << p >>
  ELSE IF Head(sorted)[1] <= p[1] THEN << Head(sorted) >> \o InsertPair(Tail(sorted), p)
  ELSE << p >> \o sorted

RECURSIVE SortPairs(_)
SortPairs(pairs) ==
  IF pairs = << >> THEN << >>
  ELSE InsertPair(SortPairs(SubSeq(pairs, 1, Len(pairs) - 1)), pairs[Len(pairs)])

\* the collation order String.localeCompare gives the label names of the model
NameCollation == << "Alpha", "Beta", "Zeta" >>
localeRank(name) ==
  IF \E i \in DOMAIN NameCollation : NameCollation[i] = name
  THEN CHOOSE i \in DOMAIN NameCollation : NameCollation[i] = name
  ELSE Len(NameCollation) + 1

(***************************************************************************)
(* GmailStateMachine: the state record and its operations, each a function *)
(* from the record before the call to the record after it.                 *)
(***************************************************************************)
InitialState ==
  [ mode |-> "BOOT",
    labels |-> << >>,
    labelDisplayItems |-> << >>,
    labelCursor |-> 0,
    currentLabelId |-> EmptyString,
    currentLabelName |-> EmptyString,
    messages |-> << >>,
    messageDisplayItems |-> << >>,
    messageCursor |-> 0,
    nextPageToken |-> undefined,
    currentMessageId |-> EmptyId,
    currentSubject |-> EmptyId,
    pages |-> << << EmptyLine >> >>,
    currentPage |-> 0,
    errorMessage |-> NULL ]

setAuthRequired(s) == [s EXCEPT !.mode = "AUTH_REQUIRED", !.errorMessage = NULL]

setError(s, message) == [s EXCEPT !.mode = "ERROR", !.errorMessage = message]

systemHas(id) == \E i \in DOMAIN SYSTEM_LABELS : SYSTEM_LABELS[i].id = id
systemOrder(id) ==
  IF systemHas(id) THEN (CHOOSE i \in DOMAIN SYSTEM_LABELS : SYSTEM_LABELS[i].id = id) - 1
  ELSE 999
systemName(l) ==
  IF systemHas(l.id)
  THEN SYSTEM_LABELS[CHOOSE i \in DOMAIN SYSTEM_LABELS : SYSTEM_LABELS[i].id = l.id].name
  ELSE l.name

\* setLabels classifying the labels without sorting them
sortedLabelsInInputOrder(labels) ==
  LET isSystem(l) == systemHas(l.id)
      isUser(l) == ~systemHas(l.id) /\ l.type = "user"
      systemLabels == SelectSeq(labels, isSystem)
      userLabels == SelectSeq(labels, isUser)
  IN  [i \in DOMAIN systemLabels |->
         [systemLabels[i] EXCEPT !.name = systemName(systemLabels[i])]] \o userLabels

sortedLabels(labels) ==
  LET isSystem(l) == systemHas(l.id)
      isUser(l) == ~systemHas(l.id) /\ l.type = "user"
      systemLabels == SelectSeq(labels, isSystem)
      userLabels == SelectSeq(labels, isUser)
      sysSorted == SortPairs([i \in DOMAIN systemLabels |->
                      << systemOrder(systemLabels[i].id), systemLabels[i] >>])
      userSorted == SortPairs([i \in DOMAIN userLabels |->
                      << localeRank(userLabels[i].name), userLabels[i] >>])
      friendly == [i \in DOMAIN sysSorted |->
                      [sysSorted[i][2] EXCEPT !.name = systemName(sysSorted[i][2])]]
  IN  friendly \o [i \in DOMAIN userSorted |-> userSorted[i][2]]

\* the display line of a label: its name (no label of the model carries an
\* unread count, and every name fits the line)
labelDisplayItem(l) == l.name

setLabels(s, labels) ==
  LET sorted == sortedLabels(labels)
  IN  [s EXCEPT !.mode = "LABELS",
                !.errorMessage = NULL,
                !.labels = sorted,
                !.labelCursor = 0,
                !.labelDisplayItems = [i \in DOMAIN sorted |-> labelDisplayItem(sorted[i])]]

\* moveLabelCursor: the pair <<state after, returned boolean>>
moveLabelCursor(s, delta) ==
  LET next == s.labelCursor + delta
  IN  IF next < 0 \/ next >= Len(s.labels) THEN << s, FALSE >>
      ELSE << [s EXCEPT !.labelCursor = next], TRUE >>

getLabelAtCursor(s) == At(s.labels, s.labelCursor)
getLabelAtIndex(s, displayIndex) == At(s.labels, displayIndex)

\* formatMessageLine: the unread marker, then the sender and subject (which
\* the message id stands for)
formatMessageLine(msg) == << IF msg.isUnread THEN "*" ELSE " ", msg.id >>

setMessages(s, labelId, labelName, messages, nextPageToken) ==
  [s EXCEPT !.mode = "MESSAGE_LIST",
            !.currentLabelId = labelId,
            !.currentLabelName = labelName,
            !.messages = messages,
            !.messageCursor = 0,
            !.nextPageToken = nextPageToken,
            !.errorMessage = NULL,
            !.messageDisplayItems = [i \in DOMAIN messages |-> formatMessageLine(messages[i])]]

\* appendMessages that drops the messages already loaded
replaceMessages(s, messages, nextPageToken) ==
  [s EXCEPT !.messages = messages, !.nextPageToken = nextPageToken]

\* appendMessages that also rewinds the cursor, as setMessages does
appendMessagesRewinding(s, messages, nextPageToken) ==
  [s EXCEPT !.messages = s.messages \o messages,
            !.nextPageToken = nextPageToken,
            !.messageCursor = 0,
            !.messageDisplayItems =
               s.messageDisplayItems \o [i \in DOMAIN messages |-> formatMessageLine(messages[i])]]

appendMessages(s, messages, nextPageToken) ==
  [s EXCEPT !.messages = s.messages \o messages,
            !.nextPageToken = nextPageToken,
            !.messageDisplayItems =
               s.messageDisplayItems \o [i \in DOMAIN messages |-> formatMessageLine(messages[i])]]

hasMoreMessages(s) == s.nextPageToken # undefined
cursorAtEnd(s) == s.messageCursor >= Len(s.messages) - 1

\* moveMessageCursor without its range check
moveMessageCursorUnchecked(s, delta) ==
  << [s EXCEPT !.messageCursor = s.messageCursor + delta], TRUE >>

\* moveMessageCursor: the pair <<state after, returned boolean>>
moveMessageCursor(s, delta) ==
  LET next == s.messageCursor + delta
  IN  IF next < 0 \/ next >= Len(s.messages) THEN << s, FALSE >>
      ELSE << [s EXCEPT !.messageCursor = next], TRUE >>

\* getMessageAtIndex counting a negative index from the end of the list
getMessageAtIndexFromEnd(s, displayIndex) ==
  At(s.messages, IF displayIndex < 0 THEN Len(s.messages) + displayIndex ELSE displayIndex)

getMessageAtCursor(s) == At(s.messages, s.messageCursor)
getMessageAtIndex(s, displayIndex) == At(s.messages, displayIndex)

enterReader(s, messageId, subject, pages) ==
  [s EXCEPT !.mode = "READER",
            !.currentMessageId = messageId,
            !.currentSubject = subject,
            !.pages = pages,
            !.currentPage = 0,
            !.errorMessage = NULL]

\* nextPage without its last-page check
nextPageUnchecked(s) == << [s EXCEPT !.currentPage = s.currentPage + 1], TRUE >>

\* nextPage / prevPage: the pair <<state after, returned boolean>>
nextPage(s) ==
  IF s.currentPage >= Len(s.pages) - 1 THEN << s, FALSE >>
  ELSE << [s EXCEPT !.currentPage = s.currentPage + 1], TRUE >>

prevPage(s) ==
  IF s.currentPage <= 0 THEN << s, FALSE >>
  ELSE << [s EXCEPT !.currentPage = s.currentPage - 1], TRUE >>

\* findIndex: the 0-based index of the first message with that id, or -1
findIndex(messages, messageId) ==
  IF \E i \in DOMAIN messages : messages[i].id = messageId
  THEN (CHOOSE i \in DOMAIN messages :
          /\ messages[i].id = messageId
          /\ \A j \in DOMAIN messages : messages[j].id = messageId => i <= j) - 1
  ELSE -1

\* markMessageRead that leaves the list as it is
markMessageReadNoop(s, messageId) == s

\* markMessageRead that marks the whole list
markMessageReadAll(s, messageId) ==
  LET read == [i \in DOMAIN s.messages |-> [s.messages[i] EXCEPT !.isUnread = FALSE]]
  IN  IF findIndex(s.messages, messageId) = -1 THEN s
      ELSE [s EXCEPT !.messages = read,
                     !.messageDisplayItems = [i \in DOMAIN read |-> formatMessageLine(read[i])]]

markMessageRead(s, messageId) ==
  LET idx == findIndex(s.messages, messageId)
      updated == [s.messages[idx + 1] EXCEPT !.isUnread = FALSE]
  IN  IF idx = -1 THEN s
      ELSE [s EXCEPT !.messages[idx + 1] = updated,
                     !.messageDisplayItems[idx + 1] = formatMessageLine(updated)]

\* backToLabels that keeps the downstream state
backToLabelsKeepingMessages(s) == [s EXCEPT !.mode = "LABELS"]

backToLabels(s) ==
  [s EXCEPT !.mode = "LABELS",
            !.messages = << >>,
            !.messageDisplayItems = << >>,
            !.messageCursor = 0,
            !.currentLabelId = EmptyString,
            !.currentLabelName = EmptyString]

\* backToMessageList that keeps the document
backToMessageListKeepingPages(s) == [s EXCEPT !.mode = "MESSAGE_LIST"]

backToMessageList(s) ==
  [s EXCEPT !.mode = "MESSAGE_LIST",
            !.currentMessageId = EmptyId,
            !.currentSubject = EmptyId,
            !.pages = << << EmptyLine >> >>,
            !.currentPage = 0]

(***************************************************************************)
(* Text layout: paginate (src/src/domain/paginate.ts).                     *)
(***************************************************************************)
\* paginate without the last, shorter page
paginateFullPagesOnly(wrappedLines, linesPerPage) ==
  IF linesPerPage <= 0 \/ Len(wrappedLines) = 0 THEN << wrappedLines >>
  ELSE [p \in 1..(Len(wrappedLines) \div linesPerPage) |->
          Slice(wrappedLines, (p - 1) * linesPerPage, p * linesPerPage)]

RECURSIVE paginateFrom(_, _, _)
paginateFrom(wrappedLines, linesPerPage, i) ==
  IF i >= Len(wrappedLines) THEN << >>
  ELSE << Slice(wrappedLines, i, i + linesPerPage) >>
         \o paginateFrom(wrappedLines, linesPerPage, i + linesPerPage)

paginate(wrappedLines, linesPerPage) ==
  IF linesPerPage <= 0 \/ Len(wrappedLines) = 0 THEN << wrappedLines >>
  ELSE LET pages == paginateFrom(wrappedLines, linesPerPage, 0)
       IN  IF Len(pages) > 0 THEN pages ELSE << << EmptyLine >> >>

(***************************************************************************)
(* The collaborators, as the controller sees them.                         *)
(***************************************************************************)
Label(id, name, type) == [id |-> id, name |-> name, type |-> type]

\* what gmail.listLabels() may resolve to
LabelInputs ==
  { << >>,
    << Label("Label_1", "Alpha", "user"), Label("CHAT", "CHAT", "system"),
       Label("INBOX", "INBOX", "system") >> }

\* the i-th message of a label's mailbox; its id is << i >>
Message(i) == [id |-> << i >>, isUnread |-> (i = 1)]

\* what gmail.listMessages(labelId, maxResults, pageToken) may resolve to: the
\* token << o >> stands for "the o messages before this page"; a page holds any
\* number of the messages after them, and may or may not name a next page
ListMessagesResults(pageToken) ==
  LET o == IF pageToken = undefined THEN 0 ELSE pageToken[1]
      NextTokens(n) == {undefined} \cup (IF o + n < MaxMessages THEN {<< o + n >>} ELSE {})
  IN  UNION { { [messages |-> [i \in 1..n |-> Message(o + i)], nextPageToken |-> t] :
                  t \in NextTokens(n) } :
              n \in 0..Min(MaxMessages - o, MESSAGES_PER_PAGE) }

\* what gmail.getMessage(id) may resolve to: the number of body lines
\* htmlToPlainText yields for it (every line short enough to need no wrapping)
BodyLineCounts == {0, 4}

\* how a mailbox call may reject: "error" (network, 5xx, no refresh token), or
\* "expired" (refreshAccessToken found the refresh token revoked and removed
\* it); a call resolves only with a refresh token stored
Failures == {"error", "expired"}

\* a device call, as the last thing sent to the glasses
Call(name, arg) == [call |-> name, arg |-> arg]
NoCall == Call("none", "")

Flows == {"main", "gesture"}

\* what pc follows: the two flows, and the request of gmail.markAsRead that
\* openMessage starts without awaiting it
Tasks == Flows \cup {"markAsRead"}

NoLoc == [labelId |-> EmptyString, labelName |-> EmptyString,
          token |-> undefined, messageId |-> EmptyId]

\* sequence tags of gestures, modulo SeqMod
SeqMod == MaxQueue + 2
SuccSeq(n) == (n + 1) % SeqMod

(***************************************************************************)
(* GlassAdapterImpl (src/src/adapters/glassAdapter.ts) as constructed, and *)
(* the bridge and clock it talks to.                                       *)
(***************************************************************************)
SCROLL_COOLDOWN_MS == 300
RetryDelayMs == 300

InitialAdapter ==
  [bridge |-> FALSE,            \* this.bridge is set
   gestureHandlers |-> 0,       \* this.gestureHandlers.size
   startupDone |-> FALSE,
   currentMode |-> NULL,
   lastScrollTime |-> 0,
   at |-> "idle",               \* the await the running render call is suspended at
   method |-> NULL,             \* the render call that is running
   retryAt |-> 0]               \* when the timer of delay() fires

\* Date.now() has long passed the cooldown when the adapter is constructed
InitialHub ==
  [now |-> SCROLL_COOLDOWN_MS,  \* Date.now()
   events |-> 0,                \* how many events the bridge passed to the listener
   last |-> << >>,              \* the last of them: << [type, at] >>
   handled |-> 0,               \* how many gestures the listener passed to the handlers
   lastCall |-> << >>,          \* the last of them: << [kind, at] >>
   scrolls |-> << >>,           \* when the last two scrolls were passed to the handlers
   commands |-> << >>,          \* bridge commands of the running (or last) render call
   outcome |-> NULL,            \* how the last render call settled
   warned |-> FALSE,            \* console.warn of the last render call
   renders |-> 0,               \* render calls that reached the bridge: 0, 1, 2 for more
   startups |-> 0]              \* createStartUpPageContainer commands: 0, 1, 2 for more

(***************************************************************************)
(* One call of GmailAdapterImpl.apiFetch (src/src/adapters/gmailAdapter.ts) *)
(* and the token cache of GmailAuthService, before any call.               *)
(***************************************************************************)
InitialApi ==
  [at |-> "idle",               \* the await apiFetch is suspended at
   path |-> NULL,               \* what the running (or last) call asks for
   accessToken |-> FALSE,       \* an access token is cached and not yet expired
   requests |-> << >>,          \* the requests of the running (or last) call: << >> in
                                \* flight, << status >> answered, << 0 >> no answer
   refreshes |-> 0,             \* requests to the token endpoint during that call
   forced |-> 0,                \* calls of auth.forceRefresh during that call
   outcome |-> NULL]            \* how the last call settled

\* no text function has been applied
NoText == [fn |-> NULL, arg |-> << >>, n |-> 0, index |-> 0, out |-> << >>]

\* new WakeLockServiceImpl() in a visible page: no sentinel, no listener, no request
\* sentinel: 0 is null, otherwise the platform lock the sentinel stands for;
\* listener: boundVisibilityHandler is registered; visible: document.visibilityState;
\* caller: the acquire() / release() call that has not returned yet;
\* requests: navigator.wakeLock.request calls of the visibility handler not yet settled;
\* held: the platform locks in force; granted: how many were granted so far
InitialWakeLock ==
  [sentinel |-> 0, listener |-> FALSE, visible |-> TRUE, caller |-> "idle",
   requests |-> 0, held |-> {}, granted |-> 0]

VARIABLES
  api,         \* the running call of apiFetch and the token cache
  text,        \* a call of a function checked on its own: its arguments and result
  wakeLock,    \* WakeLockServiceImpl's other fields, its running calls, the platform's locks
  adapter,     \* the fields of GlassAdapterImpl and its running render call
  hub,         \* the bridge side: clock, events sent, gestures handled, commands received
  state,       \* GmailStateMachine.state
  started,     \* Controller.started
  subscribed,  \* the controller's handler is registered with glass.onGesture
  queue,       \* gestures chained on Controller.gestureQueue, not yet started
  chain,       \* how the promise the next chained .then waits for has settled
  pc,          \* per flow: the await it is suspended at; "markAsRead": "idle" or "pending"
  mphase,      \* main flow: "start" (controller.start) or "refresh" (refreshAfterAuth)
  loc,         \* locals of the running gesture handler
  auth,        \* GmailAuthService.isAuthenticated(): a refresh token is stored
  wantLock,    \* WakeLockServiceImpl.wantLock
  glass,       \* the last call issued to the GlassAdapter
  nextSeq,     \* tag of the next gesture to arrive
  lastSeq,     \* tag of the gesture whose handler started last
  calls,       \* per flow: mailbox calls issued since the handler / phase began
  dropped      \* a chained gesture's handler was skipped

vars == << state, started, subscribed, queue, chain, pc, mphase, loc, auth, wantLock,
           glass, nextSeq, lastSeq, calls, dropped, adapter, hub, api, text, wakeLock >>

\* everything constructed, no text function applied yet
Init ==
  /\ text = NoText
  /\ wakeLock = InitialWakeLock
  /\ api = InitialApi
  /\ state = InitialState
  /\ started = FALSE
  /\ subscribed = FALSE
  /\ queue = << >>
  /\ chain = "fulfilled"
  /\ pc = [f \in Tasks |-> IF f = "main" THEN "init" ELSE "idle"]
  /\ mphase = "start"
  /\ loc = NoLoc
  /\ auth \in BOOLEAN
  /\ wantLock = FALSE
  /\ glass = NoCall
  /\ nextSeq = 1
  /\ lastSeq = 0
  /\ calls = [f \in Flows |-> 0]
  /\ adapter = InitialAdapter
  /\ hub = InitialHub
  /\ dropped = FALSE

(***************************************************************************)
(* Controller.handleGesture and the handlers it dispatches to: the code    *)
(* run from the start of the handler to its first await, as an effect      *)
(*   s: the state machine after it, next: the await reached ("settled"     *)
(*   when the handler returned without awaiting), call: the device call    *)
(*   issued, lock: the wake-lock call issued, loc: the handler's locals.   *)
(***************************************************************************)
Eff(s, next, call) == [s |-> s, next |-> next, call |-> call, lock |-> "same", loc |-> NoLoc]
Settled(s) == Eff(s, "settled", NoCall)

\* loadLabels up to `await this.glass.showMessage(APP_TEXT.loadingLabels)`
loadLabels(s) == Eff(s, "ll_loading", Call("showMessage", "loadingLabels"))

\* loadMessages up to `await this.glass.showMessage("Loading ...")`
loadMessages(s, labelId, labelName) ==
  [Eff(s, "lm_loading", Call("showMessage", "loadingMessages"))
     EXCEPT !.loc = [NoLoc EXCEPT !.labelId = labelId, !.labelName = labelName]]

\* loadMoreMessages up to `await this.glass.updateMessageListText(... Loading...)`
loadMoreMessages(s) ==
  IF s.nextPageToken = undefined THEN Settled(s)
  ELSE [Eff(s, "lmm_loading", Call("updateMessageListText", "loading"))
          EXCEPT !.loc = [NoLoc EXCEPT !.labelId = s.currentLabelId,
                                       !.labelName = s.currentLabelName,
                                       !.token = s.nextPageToken]]

\* openMessage up to `await this.glass.showMessage(APP_TEXT.loadingMessage)`
openMessage(s, messageId) ==
  [Eff(s, "om_loading", Call("showMessage", "loadingMessage"))
     EXCEPT !.loc = [NoLoc EXCEPT !.messageId = messageId]]

handleLabels(g, s) ==
  IF g.kind = "SCROLL_FWD" THEN
    LET m == moveLabelCursor(s, 1)
    IN  IF m[2] THEN Eff(m[1], "render", Call("updateLabelListText", "list")) ELSE Settled(s)
  ELSE IF g.kind = "SCROLL_BACK" THEN
    LET m == moveLabelCursor(s, -1)
    IN  IF m[2] THEN Eff(m[1], "render", Call("updateLabelListText", "list")) ELSE Settled(s)
  ELSE IF g.kind = "TAP" THEN
    LET label == getLabelAtCursor(s)
    IN  IF label # null THEN loadMessages(s, label[1].id, label[1].name) ELSE Settled(s)
  ELSE Settled(s)

handleMessageList(g, s) ==
  IF g.kind = "SCROLL_FWD" THEN
    LET m == moveMessageCursor(s, 1)
    IN  IF m[2] THEN Eff(m[1], "render", Call("updateMessageListText", "list"))
        ELSE IF cursorAtEnd(s) /\ hasMoreMessages(s) THEN loadMoreMessages(s)
        ELSE Settled(s)
  ELSE IF g.kind = "SCROLL_BACK" THEN
    LET m == moveMessageCursor(s, -1)
    IN  IF m[2] THEN Eff(m[1], "render", Call("updateMessageListText", "list")) ELSE Settled(s)
  ELSE IF g.kind = "DOUBLE_TAP" THEN
    Eff(backToLabels(s), "render", Call("showLabels", "list"))
  ELSE IF g.kind = "TAP" THEN
    LET msg == getMessageAtCursor(s)
    IN  IF msg # null THEN openMessage(s, msg[1].id) ELSE Settled(s)
  ELSE Settled(s)

handleReader(g, s) ==
  IF g.kind = "SCROLL_FWD" THEN
    LET m == nextPage(s)
    IN  IF m[2] THEN Eff(m[1], "render", Call("updateReaderText", "page")) ELSE Settled(s)
  ELSE IF g.kind = "SCROLL_BACK" THEN
    LET m == prevPage(s)
    IN  IF m[2] THEN Eff(m[1], "render", Call("updateReaderText", "page")) ELSE Settled(s)
  ELSE IF g.kind \in {"TAP", "DOUBLE_TAP"} THEN
    [Eff(backToMessageList(s), "rd_release", NoCall) EXCEPT !.lock = "release"]
  ELSE Settled(s)

handleForegroundEnter(s) ==
  IF s.mode = "READER" THEN [Eff(s, "fe_acquire", NoCall) EXCEPT !.lock = "acquire"]
  ELSE IF s.mode = "MESSAGE_LIST" THEN Eff(s, "render", Call("showMessageList", "list"))
  ELSE IF s.mode = "LABELS" THEN Eff(s, "render", Call("showLabels", "list"))
  ELSE Settled(s)

handleForegroundExit(s) == [Eff(s, "wake", NoCall) EXCEPT !.lock = "release"]

handleGesture(g, s, isAuthenticated) ==
  IF g.kind = "FOREGROUND_ENTER" THEN handleForegroundEnter(s)
  ELSE IF g.kind = "FOREGROUND_EXIT" THEN handleForegroundExit(s)
  ELSE IF s.mode = "LABELS" THEN handleLabels(g, s)
  ELSE IF s.mode = "MESSAGE_LIST" THEN handleMessageList(g, s)
  ELSE IF s.mode = "READER" THEN handleReader(g, s)
  ELSE IF s.mode = "AUTH_REQUIRED" /\ g.kind = "TAP" THEN
    IF isAuthenticated THEN loadLabels(s) ELSE Settled(s)
  ELSE IF s.mode = "ERROR" /\ g.kind = "TAP" THEN loadLabels(s)
  ELSE Settled(s)

\* bootstrap without the isAuthenticated() check
bootstrapUnguarded(s, isAuthenticated) == loadLabels(s)

\* bootstrap up to its first await
bootstrap(s, isAuthenticated) ==
  IF ~isAuthenticated
  THEN Eff(setAuthRequired(s), "boot_authmsg", Call("showMessage", "authRequired"))
  ELSE loadLabels(s)

(***************************************************************************)
(* The gesture queue: gestureQueue = gestureQueue.then(handle).catch(log)  *)
(***************************************************************************)
\* the .then callback of the next link runs once the link before it settled
\* a chain whose next link never runs
queueStalled(p) == FALSE

queueReady(p) == p["gesture"] = "idle"

\* the link chained last instead of the one chained first
newestInLine(q) == q[Len(q)]

\* the chained gesture whose .then callback runs next
nextInLine(q) == Head(q)

\* a chain without the .catch: the link settles as the handler did
rethrow(outcome) == outcome

\* .catch((err) => console.error(...)): the callback logs the rejection and
\* returns, so the link it settles is fulfilled
catchHandler(outcome) == "fulfilled"

(***************************************************************************)
(* How a flow continues when its async function returns or throws.         *)
(***************************************************************************)
\* the gesture handler settled: a fulfilled handler settles the link of the
\* promise chain, a rejected one hands the rejection to the .catch callback
SettleGesture(outcome) ==
  /\ pc' = [pc EXCEPT !["gesture"] = IF outcome = "rejected" THEN "catch" ELSE "idle"]
  /\ chain' = IF outcome = "rejected" THEN chain ELSE "fulfilled"
  /\ loc' = NoLoc
  /\ calls' = [calls EXCEPT !["gesture"] = 0]
  /\ UNCHANGED << mphase, glass >>

\* main.ts: controller.start().then(refreshAfterAuth if authenticated).catch(log)
SettleMain(outcome) ==
  /\ IF mphase = "start" /\ outcome = "fulfilled" /\ auth
     THEN /\ mphase' = "refresh"
          /\ pc' = [pc EXCEPT !["main"] = loadLabels(state).next]
          /\ glass' = loadLabels(state).call
     ELSE /\ pc' = [pc EXCEPT !["main"] = "done"]
          /\ UNCHANGED << mphase, glass >>
  /\ calls' = [calls EXCEPT !["main"] = 0]
  /\ UNCHANGED << chain, loc >>

Return(f, outcome) == IF f = "gesture" THEN SettleGesture(outcome) ELSE SettleMain(outcome)

\* the flow issues `call` (if any) and suspends at `label`
Suspend(f, label, call) ==
  /\ pc' = [pc EXCEPT ![f] = label]
  /\ glass' = IF call = NoCall THEN glass ELSE call
  /\ UNCHANGED << mphase, chain >>

LockAfter(lock) == IF lock = "acquire" THEN TRUE ELSE IF lock = "release" THEN FALSE ELSE wantLock

\* err.message, whatever threw
ErrorText(failure) == "failed"
RenderError == "failed"

envVars == << started, subscribed, queue, nextSeq, lastSeq, dropped, adapter, hub, api, text, wakeLock >>

\* Array.prototype.filter: q without the entry g
Without(q, g) == SelectSeq(q, LAMBDA x : x # g)

SubjectOf(messageId) == << "Subject" >> \o messageId

\* wrapLines(allLines, CHARS_PER_LINE) for header and body lines that all fit
\* the width, then paginate(wrapped, LINES_PER_PAGE)
pagesOf(bodyLineCount) ==
  LET allLines == [i \in 1..(HeaderLineCount + bodyLineCount) |-> i]
  IN  paginate(allLines, LINES_PER_PAGE)

(***************************************************************************)
(* main.ts and Controller.start                                            *)
(***************************************************************************)
\* controller.start() up to `await this.glass.connect()`
Start ==
  /\ pc["main"] = "init"
  /\ ~started
  /\ started' = TRUE
  /\ Suspend("main", "connect", NoCall)
  /\ UNCHANGED << state, subscribed, queue, nextSeq, lastSeq, dropped, loc, auth,
                  wantLock, calls >>
  /\ UNCHANGED << adapter, hub, api, text, wakeLock >>

\* connect() settled: subscribe to gestures, then bootstrap() up to its first await
ConnectSettles(ok) ==
  /\ pc["main"] = "connect"
  /\ IF ok
     THEN LET e == bootstrap(state, auth)
          IN  /\ subscribed' = TRUE
              /\ state' = e.s
              /\ Suspend("main", e.next, e.call)
              /\ UNCHANGED << loc, calls >>
     ELSE /\ Return("main", "rejected")
          /\ UNCHANGED << subscribed, state >>
  /\ UNCHANGED << started, queue, nextSeq, lastSeq, dropped, auth, wantLock >>
  /\ UNCHANGED << adapter, hub, api, text, wakeLock >>

\* bootstrap: `await this.glass.showMessage(APP_TEXT.authRequired)` settled
AuthRequiredShown(ok) ==
  /\ pc["main"] = "boot_authmsg"
  /\ Return("main", IF ok THEN "fulfilled" ELSE "rejected")
  /\ UNCHANGED << state, auth, wantLock >>
  /\ UNCHANGED envVars

(***************************************************************************)
(* Controller.loadLabels, run by the main flow (bootstrap, refreshAfterAuth)*)
(* and by the gesture handler (Tap in AUTH_REQUIRED or ERROR)               *)
(***************************************************************************)
\* the catch block of loadLabels up to its await
CatchLoadLabels(f, msg) ==
  /\ state' = setError(state, msg)
  /\ Suspend(f, "ll_errmsg", Call("showMessage", "labelsError"))
  /\ UNCHANGED << loc, calls >>

LoadingLabelsShown(f, ok) ==
  /\ pc[f] = "ll_loading"
  /\ IF ok
     THEN /\ Suspend(f, "ll_fetch", NoCall)
          /\ calls' = [calls EXCEPT ![f] = @ + 1]
          /\ UNCHANGED << state, loc >>
     ELSE CatchLoadLabels(f, RenderError)
  /\ UNCHANGED << auth, wantLock >>
  /\ UNCHANGED envVars

ListLabelsResolves(f, labels) ==
  /\ pc[f] = "ll_fetch"
  /\ auth
  /\ state' = setLabels(state, labels)
  /\ Suspend(f, "ll_render", Call("showLabels", "list"))
  /\ UNCHANGED << loc, calls, auth, wantLock >>
  /\ UNCHANGED envVars

ListLabelsRejects(f, failure) ==
  /\ pc[f] = "ll_fetch"
  /\ failure = "expired" => auth
  /\ auth' = IF failure = "expired" THEN FALSE ELSE auth
  /\ CatchLoadLabels(f, ErrorText(failure))
  /\ UNCHANGED wantLock
  /\ UNCHANGED envVars

LabelsShown(f, ok) ==
  /\ pc[f] = "ll_render"
  /\ IF ok
     THEN Return(f, "fulfilled") /\ UNCHANGED state
     ELSE CatchLoadLabels(f, RenderError)
  /\ UNCHANGED << auth, wantLock >>
  /\ UNCHANGED envVars

LabelsErrorShown(f, ok) ==
  /\ pc[f] = "ll_errmsg"
  /\ Return(f, IF ok THEN "fulfilled" ELSE "rejected")
  /\ UNCHANGED << state, auth, wantLock >>
  /\ UNCHANGED envVars

(***************************************************************************)
(* The gesture stream and the promise chain                                *)
(***************************************************************************)
\* the device delivers a gesture to the subscribed handler, which chains it
GestureArrives(kind) ==
  /\ subscribed
  /\ Len(queue) < MaxQueue
  /\ queue' = Append(queue, [kind |-> kind, seq |-> nextSeq])
  /\ nextSeq' = SuccSeq(nextSeq)
  /\ UNCHANGED << state, started, subscribed, chain, pc, mphase, loc, auth, wantLock,
                  glass, lastSeq, calls, dropped >>
  /\ UNCHANGED << adapter, hub, api, text, wakeLock >>

\* the .then callback chained for gesture g runs: handleGesture up to its first
\* await (or the callback is skipped, when the link before it was rejected)
StartHandler(g) ==
  LET e == handleGesture(g, state, auth)
  IN  /\ IF chain = "fulfilled"
         THEN /\ lastSeq' = g.seq
              /\ state' = e.s
              /\ wantLock' = LockAfter(e.lock)
              /\ IF e.next = "settled"
                 THEN SettleGesture("fulfilled")
                 ELSE /\ Suspend("gesture", e.next, e.call)
                      /\ loc' = e.loc
                      /\ calls' = [calls EXCEPT !["gesture"] = 0]
              /\ UNCHANGED dropped
         ELSE /\ dropped' = TRUE
              /\ chain' = catchHandler("rejected")
              /\ UNCHANGED << lastSeq, state, wantLock, pc, mphase, glass, loc, calls >>
      /\ UNCHANGED << started, subscribed, auth >>
      /\ UNCHANGED << adapter, hub, api, text, wakeLock >>

\* the link chained first starts once the link before it has settled
StartGesture ==
  /\ queueReady(pc)
  /\ queue # << >>
  /\ StartHandler(nextInLine(queue))
  /\ queue' = Without(queue, nextInLine(queue))
  /\ UNCHANGED nextSeq

\* a gesture that arrives while nothing is chained or running: its link starts
\* at once (GestureArrives and StartGesture in one step)
Deliver(kind) ==
  /\ subscribed
  /\ queue = << >>
  /\ queueReady(pc)
  /\ StartHandler([kind |-> kind, seq |-> nextSeq])
  /\ UNCHANGED << queue, nextSeq >>

\* the .catch callback chained behind the handler runs: console.error, and
\* the link settles
CatchLogs ==
  /\ pc["gesture"] = "catch"
  /\ pc' = [pc EXCEPT !["gesture"] = "idle"]
  /\ chain' = catchHandler("rejected")
  /\ UNCHANGED << state, mphase, loc, auth, wantLock, glass, calls >>
  /\ UNCHANGED envVars

\* a render awaited outside any try/catch, as the handler's last statement
RenderSettles(ok) ==
  /\ pc["gesture"] = "render"
  /\ SettleGesture(IF ok THEN "fulfilled" ELSE "rejected")
  /\ UNCHANGED << state, auth, wantLock >>
  /\ UNCHANGED envVars

\* wakeLock.acquire() / release() settled (they never reject)
WakeLockSettles ==
  /\ pc["gesture"] \in {"wake", "fe_acquire", "rd_release"}
  /\ IF pc["gesture"] = "wake" THEN SettleGesture("fulfilled")
     ELSE /\ Suspend("gesture", "render",
                     IF pc["gesture"] = "fe_acquire" THEN Call("showReader", "page")
                     ELSE Call("showMessageList", "list"))
          /\ UNCHANGED << loc, calls >>
  /\ UNCHANGED << state, auth, wantLock >>
  /\ UNCHANGED envVars

(***************************************************************************)
(* Controller.loadMessages                                                 *)
(***************************************************************************)
CatchLoadMessages(msg) ==
  /\ state' = setError(state, msg)
  /\ Suspend("gesture", "lm_errmsg", Call("showMessage", "messagesError"))
  /\ UNCHANGED << loc, calls >>

LoadingMessagesShown(ok) ==
  /\ pc["gesture"] = "lm_loading"
  /\ IF ok
     THEN /\ Suspend("gesture", "lm_fetch", NoCall)
          /\ calls' = [calls EXCEPT !["gesture"] = @ + 1]
          /\ UNCHANGED << state, loc >>
     ELSE CatchLoadMessages(RenderError)
  /\ UNCHANGED << auth, wantLock >>
  /\ UNCHANGED envVars

ListMessagesResolves(r) ==
  /\ pc["gesture"] = "lm_fetch"
  /\ auth
  /\ IF Len(r.messages) = 0
     THEN /\ state' = setMessages(state, loc.labelId, loc.labelName, << >>, undefined)
          /\ Suspend("gesture", "lm_shown", Call("showMessage", "emptyLabel"))
     ELSE /\ state' = setMessages(state, loc.labelId, loc.labelName, r.messages,
                                  r.nextPageToken)
          /\ Suspend("gesture", "lm_shown", Call("showMessageList", "list"))
  /\ UNCHANGED << loc, calls, auth, wantLock >>
  /\ UNCHANGED envVars

ListMessagesRejects(failure) ==
  /\ pc["gesture"] = "lm_fetch"
  /\ failure = "expired" => auth
  /\ auth' = IF failure = "expired" THEN FALSE ELSE auth
  /\ CatchLoadMessages(ErrorText(failure))
  /\ UNCHANGED wantLock
  /\ UNCHANGED envVars

MessagesShown(ok) ==
  /\ pc["gesture"] = "lm_shown"
  /\ IF ok
     THEN SettleGesture("fulfilled") /\ UNCHANGED state
     ELSE CatchLoadMessages(RenderError)
  /\ UNCHANGED << auth, wantLock >>
  /\ UNCHANGED envVars

\* the showMessage awaited in the catch block of loadMessages or openMessage
ErrorShown(ok) ==
  /\ pc["gesture"] \in {"lm_errmsg", "om_errmsg"}
  /\ SettleGesture(IF ok THEN "fulfilled" ELSE "rejected")
  /\ UNCHANGED << state, auth, wantLock >>
  /\ UNCHANGED envVars

(***************************************************************************)
(* Controller.loadMoreMessages                                             *)
(***************************************************************************)
\* a catch block that surfaces the failure as loadMessages does
CatchLoadMoreAsError ==
  /\ state' = setError(state, RenderError)
  /\ Suspend("gesture", "render", Call("showMessage", "messagesError"))
  /\ UNCHANGED << loc, calls >>

\* the catch block: log, then `await this.renderMessageListUpdate()`
CatchLoadMore ==
  /\ Suspend("gesture", "render", Call("updateMessageListText", "list"))
  /\ UNCHANGED << state, loc, calls >>

LoadingMoreShown(ok) ==
  /\ pc["gesture"] = "lmm_loading"
  /\ IF ok
     THEN /\ Suspend("gesture", "lmm_fetch", NoCall)
          /\ calls' = [calls EXCEPT !["gesture"] = @ + 1]
          /\ UNCHANGED << state, loc >>
     ELSE CatchLoadMore
  /\ UNCHANGED << auth, wantLock >>
  /\ UNCHANGED envVars

ListMoreResolves(r) ==
  /\ pc["gesture"] = "lmm_fetch"
  /\ auth
  /\ state' = moveMessageCursor(appendMessages(state, r.messages, r.nextPageToken), 1)[1]
  /\ Suspend("gesture", "lmm_render", Call("updateMessageListText", "list"))
  /\ UNCHANGED << loc, calls, auth, wantLock >>
  /\ UNCHANGED envVars

ListMoreRejects(failure) ==
  /\ pc["gesture"] = "lmm_fetch"
  /\ failure = "expired" => auth
  /\ auth' = IF failure = "expired" THEN FALSE ELSE auth
  /\ CatchLoadMore
  /\ UNCHANGED wantLock
  /\ UNCHANGED envVars

MoreShown(ok) ==
  /\ pc["gesture"] = "lmm_render"
  /\ IF ok
     THEN SettleGesture("fulfilled") /\ UNCHANGED state
     ELSE CatchLoadMore
  /\ UNCHANGED << auth, wantLock >>
  /\ UNCHANGED envVars

(***************************************************************************)
(* Controller.openMessage                                                  *)
(***************************************************************************)
CatchOpenMessage(msg) ==
  /\ state' = setError(state, msg)
  /\ Suspend("gesture", "om_errmsg", Call("showMessage", "readError"))
  /\ UNCHANGED << loc, calls >>

LoadingMessageShown(ok) ==
  /\ pc["gesture"] = "om_loading"
  /\ IF ok
     THEN /\ Suspend("gesture", "om_fetch", NoCall)
          /\ calls' = [calls EXCEPT !["gesture"] = @ + 1]
          /\ UNCHANGED << state, loc >>
     ELSE CatchOpenMessage(RenderError)
  /\ UNCHANGED << auth, wantLock >>
  /\ UNCHANGED envVars

GetMessageResolves(bodyLineCount) ==
  /\ pc["gesture"] = "om_fetch"
  /\ auth
  /\ state' = enterReader(markMessageRead(state, loc.messageId), loc.messageId,
                          SubjectOf(loc.messageId), pagesOf(bodyLineCount))
  /\ Suspend("gesture", "om_render", Call("showReader", "page"))
  /\ UNCHANGED << loc, calls, auth, wantLock >>
  /\ UNCHANGED envVars

\* the same step, with the request of gmail.markAsRead followed until it settles;
\* GetMessageResolves leaves the request out of sight, as nothing awaits it
GetMessageResolvesMarking(bodyLineCount) ==
  /\ pc["gesture"] = "om_fetch"
  /\ auth
  /\ state' = enterReader(markMessageRead(state, loc.messageId), loc.messageId,
                          SubjectOf(loc.messageId), pagesOf(bodyLineCount))
  /\ pc' = [pc EXCEPT !["gesture"] = "om_render", !["markAsRead"] = "pending"]
  /\ glass' = Call("showReader", "page")
  /\ UNCHANGED << mphase, chain, loc, calls, auth, wantLock >>
  /\ UNCHANGED envVars

\* gmail.markAsRead(messageId).catch(log): the request settles on its own; a
\* rejection is logged, a rejected refresh of the access token signs out
MarkAsReadSettles(outcome) ==
  /\ pc["markAsRead"] = "pending"
  /\ outcome = "fulfilled" => auth
  /\ outcome = "expired" => auth
  /\ pc' = [pc EXCEPT !["markAsRead"] = "idle"]
  /\ auth' = IF outcome = "expired" THEN FALSE ELSE auth
  /\ UNCHANGED << state, mphase, chain, loc, calls, wantLock, glass >>
  /\ UNCHANGED envVars

GetMessageRejects(failure) ==
  /\ pc["gesture"] = "om_fetch"
  /\ failure = "expired" => auth
  /\ auth' = IF failure = "expired" THEN FALSE ELSE auth
  /\ CatchOpenMessage(ErrorText(failure))
  /\ UNCHANGED wantLock
  /\ UNCHANGED envVars

ReaderShown(ok) ==
  /\ pc["gesture"] = "om_render"
  /\ IF ok
     THEN /\ wantLock' = TRUE
          /\ Suspend("gesture", "wake", NoCall)
          /\ UNCHANGED << state, loc, calls >>
     ELSE CatchOpenMessage(RenderError) /\ UNCHANGED wantLock
  /\ UNCHANGED auth
  /\ UNCHANGED envVars

(***************************************************************************)
(* The environment                                                         *)
(***************************************************************************)
\* a refresh token is stored from outside the controller (sign-in on the phone)
SignIn ==
  /\ started
  /\ ~auth
  /\ auth' = TRUE
  /\ UNCHANGED << state, started, subscribed, queue, chain, pc, mphase, loc, wantLock,
                  glass, nextSeq, lastSeq, calls, dropped >>
  /\ UNCHANGED << adapter, hub, api, text, wakeLock >>

Next ==
  \/ Start
  \/ \E ok \in BOOLEAN : ConnectSettles(ok)
  \/ \E ok \in BOOLEAN : AuthRequiredShown(ok)
  \/ \E f \in Flows, ok \in BOOLEAN : LoadingLabelsShown(f, ok)
  \/ \E f \in Flows, labels \in LabelInputs : ListLabelsResolves(f, labels)
  \/ \E f \in Flows, failure \in Failures : ListLabelsRejects(f, failure)
  \/ \E f \in Flows, ok \in BOOLEAN : LabelsShown(f, ok)
  \/ \E f \in Flows, ok \in BOOLEAN : LabelsErrorShown(f, ok)
  \/ \E kind \in GestureKind : Deliver(kind)
  \/ CatchLogs
  \/ \E ok \in BOOLEAN : RenderSettles(ok)
  \/ WakeLockSettles
  \/ \E ok \in BOOLEAN : LoadingMessagesShown(ok)
  \/ \E r \in ListMessagesResults(undefined) : ListMessagesResolves(r)
  \/ \E failure \in Failures : ListMessagesRejects(failure)
  \/ \E ok \in BOOLEAN : MessagesShown(ok)
  \/ \E ok \in BOOLEAN : ErrorShown(ok)
  \/ \E ok \in BOOLEAN : LoadingMoreShown(ok)
  \/ \E r \in ListMessagesResults(loc.token) : ListMoreResolves(r)
  \/ \E failure \in Failures : ListMoreRejects(failure)
  \/ \E ok \in BOOLEAN : MoreShown(ok)
  \/ \E ok \in BOOLEAN : LoadingMessageShown(ok)
  \/ \E n \in BodyLineCounts : GetMessageResolves(n)
  \/ \E failure \in Failures : GetMessageRejects(failure)
  \/ \E ok \in BOOLEAN : ReaderShown(ok)
  \/ SignIn

Spec == Init /\ [][Next]_vars

(***************************************************************************)
(* The promise chain under a burst of gestures: gestures arrive while a    *)
(* handler runs and wait in the chain.  The user is signed in, scrolls     *)
(* forward and taps; the mailbox answers, and a render awaited outside a   *)
(* try/catch may throw.                                                    *)
(***************************************************************************)
QueueKinds == {"SCROLL_FWD", "TAP"}
QueueLabels == << Label("Label_1", "Alpha", "user"), Label("INBOX", "INBOX", "system") >>

InitQueue == Init /\ auth

NextQueue ==
  \/ Start
  \/ ConnectSettles(TRUE)
  \/ \E f \in Flows : LoadingLabelsShown(f, TRUE)
  \/ \E f \in Flows : ListLabelsResolves(f, QueueLabels)
  \/ \E f \in Flows : LabelsShown(f, TRUE)
  \/ \E kind \in QueueKinds : GestureArrives(kind)
  \/ StartGesture
  \/ CatchLogs
  \/ \E ok \in BOOLEAN : RenderSettles(ok)
  \/ WakeLockSettles
  \/ LoadingMessagesShown(TRUE)
  \/ \E r \in ListMessagesResults(undefined) : ListMessagesResolves(r)
  \/ MessagesShown(TRUE)
  \/ LoadingMoreShown(TRUE)
  \/ \E r \in ListMessagesResults(loc.token) : ListMoreResolves(r)
  \/ MoreShown(TRUE)
  \/ LoadingMessageShown(TRUE)
  \/ \E n \in BodyLineCounts : GetMessageResolves(n)
  \/ ReaderShown(TRUE)

SpecQueue == InitQueue /\ [][NextQueue]_vars

(***************************************************************************)
(* Opening messages, with the markAsRead request followed: the user is     *)
(* signed in at start and waits for the label list before the first       *)
(* gesture; the message fetch, the renders of openMessage and the          *)
(* markAsRead request may fail.                                            *)
(***************************************************************************)
DeliverAfterBoot(kind) ==
  /\ pc["main"] = "done"
  /\ Deliver(kind)

NextOpen ==
  \/ Start
  \/ ConnectSettles(TRUE)
  \/ \E f \in Flows : LoadingLabelsShown(f, TRUE)
  \/ \E f \in Flows : ListLabelsResolves(f, QueueLabels)
  \/ \E f \in Flows : LabelsShown(f, TRUE)
  \/ \E kind \in GestureKind : DeliverAfterBoot(kind)
  \/ CatchLogs
  \/ \E ok \in BOOLEAN : RenderSettles(ok)
  \/ WakeLockSettles
  \/ LoadingMessagesShown(TRUE)
  \/ \E r \in ListMessagesResults(undefined) : ListMessagesResolves(r)
  \/ MessagesShown(TRUE)
  \/ LoadingMoreShown(TRUE)
  \/ \E r \in ListMessagesResults(loc.token) : ListMoreResolves(r)
  \/ MoreShown(TRUE)
  \/ \E ok \in BOOLEAN : LoadingMessageShown(ok)
  \/ \E n \in BodyLineCounts : GetMessageResolvesMarking(n)
  \/ \E failure \in Failures : GetMessageRejects(failure)
  \/ \E outcome \in {"fulfilled"} \cup Failures : MarkAsReadSettles(outcome)
  \/ \E ok \in BOOLEAN : ReaderShown(ok)
  \/ SignIn

SpecOpen == InitQueue /\ [][NextOpen]_vars

(***************************************************************************)
(* The state machine on its own: any sequence of its operations, with any  *)
(* arguments of the bounded sets below.                                    *)
(***************************************************************************)
\* cursor deltas tried: -MaxDelta .. MaxDelta
MaxDelta == 2
Deltas == (0 - MaxDelta)..MaxDelta

MessageIds == { << i >> : i \in 1..MaxMessages }
Tokens == {undefined} \cup { << k >> : k \in 1..MaxMessages }
\* a page of messages that continues a list of `have` messages
MessagePages(have) ==
  { [i \in 1..n |-> Message(have + i)] : n \in 0..(MaxMessages - have) }
PageInputs == { pagesOf(n) : n \in BodyLineCounts }

ctlVars == << started, subscribed, queue, chain, pc, mphase, loc, auth, wantLock,
              glass, nextSeq, lastSeq, calls, dropped, adapter, hub, api, text, wakeLock >>

OpSetAuthRequired == state' = setAuthRequired(state) /\ UNCHANGED ctlVars
OpSetError == state' = setError(state, ErrorText("error")) /\ UNCHANGED ctlVars
OpSetLabels(labels) == state' = setLabels(state, labels) /\ UNCHANGED ctlVars
OpMoveLabelCursor(delta) == state' = moveLabelCursor(state, delta)[1] /\ UNCHANGED ctlVars
OpSetMessages(messages, token) ==
  /\ state' = setMessages(state, "INBOX", "Inbox", messages, token)
  /\ UNCHANGED ctlVars
OpAppendMessages(messages, token) ==
  /\ state' = appendMessages(state, messages, token)
  /\ UNCHANGED ctlVars
OpMoveMessageCursor(delta) ==
  /\ state' = moveMessageCursor(state, delta)[1]
  /\ UNCHANGED ctlVars
OpEnterReader(messageId, pages) ==
  /\ state' = enterReader(state, messageId, SubjectOf(messageId), pages)
  /\ UNCHANGED ctlVars
OpNextPage == state' = nextPage(state)[1] /\ UNCHANGED ctlVars
OpPrevPage == state' = prevPage(state)[1] /\ UNCHANGED ctlVars
OpMarkMessageRead(messageId) ==
  /\ state' = markMessageRead(state, messageId)
  /\ UNCHANGED ctlVars
OpBackToLabels == state' = backToLabels(state) /\ UNCHANGED ctlVars
OpBackToMessageList == state' = backToMessageList(state) /\ UNCHANGED ctlVars

NextSM ==
  \/ OpSetAuthRequired
  \/ OpSetError
  \/ \E labels \in LabelInputs : OpSetLabels(labels)
  \/ \E delta \in Deltas : OpMoveLabelCursor(delta)
  \/ \E messages \in MessagePages(0), token \in Tokens : OpSetMessages(messages, token)
  \/ \E messages \in MessagePages(Len(state.messages)), token \in Tokens :
       OpAppendMessages(messages, token)
  \/ \E delta \in Deltas : OpMoveMessageCursor(delta)
  \/ \E messageId \in MessageIds, pages \in PageInputs : OpEnterReader(messageId, pages)
  \/ OpNextPage
  \/ OpPrevPage
  \/ \E messageId \in MessageIds : OpMarkMessageRead(messageId)
  \/ OpBackToLabels
  \/ OpBackToMessageList

SpecSM == Init /\ [][NextSM]_vars

(***************************************************************************)
(* Properties of the state machine (SpecSM)                                *)
(***************************************************************************)
InRange(cursor, list) == cursor >= 0 /\ cursor <= Len(list) - 1

\* C7: after any sequence of state-machine operations the label cursor is in
\* [0, labels.length-1] whenever the label list is non-empty and the message
\* cursor is in [0, messages.length-1] whenever the message list is non-empty;
\* setLabels leaves the label cursor 0, setMessages and backToLabels leave the
\* message cursor 0, whatever state they are called in.
C7_CursorBounds ==
  /\ Len(state.labels) > 0 => InRange(state.labelCursor, state.labels)
  /\ Len(state.messages) > 0 => InRange(state.messageCursor, state.messages)
  /\ \A labels \in LabelInputs : setLabels(state, labels).labelCursor = 0
  /\ \A messages \in MessagePages(0), token \in Tokens :
       setMessages(state, "INBOX", "Inbox", messages, token).messageCursor = 0
  /\ backToLabels(state).messageCursor = 0
  /\ backToLabels(state).messages = << >>

\* both cursors moved to the last entry of a list that has several
C7_Witness ==
  /\ Len(state.labels) > 1
  /\ state.labelCursor = Len(state.labels) - 1
  /\ Len(state.messages) > 1
  /\ state.messageCursor = Len(state.messages) - 1

\* C8: for every delta, moveLabelCursor and moveMessageCursor return true iff
\* the cursor value changed, and a call that returns false changes nothing.
C8_ReturnsWhetherMoved ==
  \A delta \in Deltas :
    LET l == moveLabelCursor(state, delta)
        m == moveMessageCursor(state, delta)
    IN  /\ l[2] <=> (l[1].labelCursor # state.labelCursor)
        /\ m[2] <=> (m[1].messageCursor # state.messageCursor)
        /\ ~l[2] => l[1] = state
        /\ ~m[2] => m[1] = state

(***************************************************************************)
(* Properties of the gesture queue (SpecQueue)                             *)
(***************************************************************************)
\* the gestures waiting in the chain are the ones that arrived after the one
\* whose handler started last, in arrival order
QueueInOrder ==
  /\ \A i \in 1..Len(queue) : queue[i].seq = (lastSeq + i) % SeqMod
  /\ nextSeq = (lastSeq + Len(queue) + 1) % SeqMod

\* C1: handleGesture invocations start in arrival order, and the handler of a
\* gesture starts only when the handler of the gesture before it has settled
\* (no handler is suspended at an await and no rejection awaits the catch).
C1_Serialized ==
  /\ [] QueueInOrder
  /\ [][lastSeq' # lastSeq =>
          /\ pc["gesture"] = "idle"
          /\ lastSeq' = SuccSeq(lastSeq)
          /\ queue # << >> /\ queue' = Tail(queue)]_vars

\* a third gesture's handler is suspended in a mailbox fetch while two more wait
C1_Witness ==
  /\ pc["gesture"] \in {"lm_fetch", "om_fetch", "lmm_fetch"}
  /\ lastSeq = 3
  /\ Len(queue) >= 2

\* C2: when a handler rejects, the .catch callback runs and settles the link
\* as fulfilled with the waiting gestures kept; no waiting gesture is ever
\* skipped, and a gesture leaves the chain only when its handler starts, the
\* one chained first before the others.
C2_QueueSurvives ==
  /\ [](~dropped /\ chain = "fulfilled")
  /\ [][pc["gesture"] = "catch" /\ pc'["gesture"] # "catch" =>
          pc'["gesture"] = "idle" /\ chain' = "fulfilled" /\ queue' = queue]_vars
  /\ [][queue' # queue /\ Len(queue') <= Len(queue) =>
          /\ pc["gesture"] = "idle"
          /\ lastSeq' = Head(queue).seq
          /\ queue' = Tail(queue)]_vars

\* a handler has rejected (its render threw outside any try/catch) while
\* gestures wait behind it
C2_Witness ==
  /\ pc["gesture"] = "catch"
  /\ Len(queue) >= 2
  /\ lastSeq >= 2

(***************************************************************************)
(* Properties of the controller (Spec)                                     *)
(***************************************************************************)
\* the main flow is inside loadLabels (bootstrap's or refreshAfterAuth's)
MainLoading == pc["main"] \in {"ll_loading", "ll_fetch", "ll_render", "ll_errmsg"}
\* a gesture handler has started and not settled
GestureRunning == pc["gesture"] \notin {"idle", "catch"}

\* C3: at most one of the bootstrap label load, the refreshAfterAuth label load
\* and a gesture handler is between its first and its last step at any time.
C3_OneFlowAtATime == ~(MainLoading /\ GestureRunning)

AllowedEdges ==
  { << "BOOT", "AUTH_REQUIRED" >>, << "BOOT", "LABELS" >>, << "AUTH_REQUIRED", "LABELS" >>,
    << "LABELS", "MESSAGE_LIST" >>, << "MESSAGE_LIST", "READER" >>,
    << "READER", "MESSAGE_LIST" >>, << "MESSAGE_LIST", "LABELS" >>, << "ERROR", "LABELS" >> }
    \cup { << m, "ERROR" >> : m \in AppMode }

\* C4: every change of mode follows one of the allowed edges.
C4_ModeEdges ==
  [][state'.mode # state.mode => << state.mode, state'.mode >> \in AllowedEdges]_vars

\* start() has connected and subscribed, and bootstrap runs to its first await
BootstrapStep == pc["main"] = "connect" /\ pc'["main"] # "connect" /\ subscribed'
\* bootstrap is running (refreshAfterAuth has not been called yet)
InBootstrap == mphase = "start"

\* C5: bootstrap without a credential sets AUTH_REQUIRED, shows the
\* auth-required message and issues no fetch; with a credential it shows the
\* loading message and issues at most one listLabels fetch, exactly one once
\* that render has succeeded; when the fetch resolves the mode becomes LABELS
\* with label cursor 0 and the label list is rendered.
C5_Bootstrap ==
  /\ [][BootstrapStep /\ ~auth =>
          /\ state'.mode = "AUTH_REQUIRED"
          /\ glass' = Call("showMessage", "authRequired")
          /\ pc'["main"] = "boot_authmsg"]_vars
  /\ [][BootstrapStep /\ auth =>
          /\ pc'["main"] = "ll_loading"
          /\ glass' = Call("showMessage", "loadingLabels")]_vars
  /\ [](InBootstrap => calls["main"] <= 1)
  /\ [](InBootstrap /\ pc["main"] \in {"connect", "boot_authmsg", "ll_loading"}
          => calls["main"] = 0)
  /\ [](InBootstrap /\ pc["main"] \in {"ll_fetch", "ll_render"} => calls["main"] = 1)
  /\ [][InBootstrap /\ pc["main"] = "ll_fetch" /\ pc'["main"] = "ll_render" =>
          /\ state'.mode = "LABELS"
          /\ state'.labelCursor = 0
          /\ glass' = Call("showLabels", "list")]_vars

\* bootstrap fetched the labels once and is rendering a list of several
C5_Witness ==
  /\ InBootstrap
  /\ pc["main"] = "ll_render"
  /\ calls["main"] = 1
  /\ state.mode = "LABELS"
  /\ Len(state.labels) > 1
  /\ glass = Call("showLabels", "list")

\* C5 as stated: with a credential, bootstrap's label load issues exactly one
\* listLabels fetch (and none without one).
C5_ExactlyOneFetch ==
  /\ InBootstrap /\ pc["main"] = "boot_authmsg" => calls["main"] = 0
  /\ InBootstrap /\ pc["main"] \in {"ll_fetch", "ll_render", "ll_errmsg"}
       => calls["main"] = 1

Tap == [kind |-> "TAP", seq |-> 0]
ScrollFwd == [kind |-> "SCROLL_FWD", seq |-> 0]

\* C6: a Tap in ERROR or AUTH_REQUIRED re-attempts the bootstrap step: the
\* auth check, then (only with a credential) the label fetch; every other user
\* gesture in these two modes changes nothing.
C6_TapRetriesBootstrap ==
  state.mode \in {"ERROR", "AUTH_REQUIRED"} =>
    /\ handleGesture(Tap, state, auth) = IF auth THEN loadLabels(state) ELSE Settled(state)
    /\ \A kind \in {"SCROLL_FWD", "SCROLL_BACK", "DOUBLE_TAP"} :
         handleGesture([kind |-> kind, seq |-> 0], state, auth) = Settled(state)

\* C9: nextPage at the last page and prevPage at page 0 return false and
\* change nothing, otherwise they move the page index by exactly one and
\* return true; in every state the controller reaches 0 <= currentPage <
\* totalPages, totalPages >= 1, and enterReader leaves the page index 0.
C9_ReaderPaging ==
  LET n == nextPage(state)
      p == prevPage(state)
      last == Len(state.pages) - 1
  IN  /\ Len(state.pages) >= 1
      /\ 0 <= state.currentPage /\ state.currentPage < Len(state.pages)
      /\ n = IF state.currentPage = last THEN << state, FALSE >>
             ELSE << [state EXCEPT !.currentPage = state.currentPage + 1], TRUE >>
      /\ p = IF state.currentPage = 0 THEN << state, FALSE >>
             ELSE << [state EXCEPT !.currentPage = state.currentPage - 1], TRUE >>
      /\ pc["gesture"] = "om_render" => state.currentPage = 0
      /\ \A messageId \in MessageIds, pages \in PageInputs :
           enterReader(state, messageId, SubjectOf(messageId), pages).currentPage = 0

\* the reader has been paged forward to the last of several pages
C9_Witness ==
  /\ state.mode = "READER"
  /\ pc["gesture"] = "idle"
  /\ state.currentPage > 0
  /\ state.currentPage = Len(state.pages) - 1

\* what a forward scroll does in MESSAGE_LIST, up to the handler's first await
ScrollInList ==
  LET e == handleGesture(ScrollFwd, state, auth)
  IN  state.mode = "MESSAGE_LIST" =>
        /\ state.messageCursor < Len(state.messages) - 1 =>
             /\ e.s = [state EXCEPT !.messageCursor = state.messageCursor + 1]
             /\ e.next = "render"
             /\ e.call = Call("updateMessageListText", "list")
        /\ state.messageCursor >= Len(state.messages) - 1 /\ state.nextPageToken = undefined
             => e = Settled(state)
        /\ state.messageCursor >= Len(state.messages) - 1 /\ state.nextPageToken # undefined =>
             /\ e.s = state
             /\ e.next = "lmm_loading"
             /\ e.loc.labelId = state.currentLabelId
             /\ e.loc.token = state.nextPageToken

\* C10: in MESSAGE_LIST a forward scroll below the last loaded item only moves
\* the cursor; at the last item with no token it changes nothing and fetches
\* nothing; at the last item with a token it shows the loading indicator and
\* issues at most one listMessages call, exactly one once that render has
\* succeeded, for the current label with the held token; when the call
\* resolves the messages are appended after the loaded ones, the token is
\* replaced by the returned one and, if a message was returned, the cursor is
\* the index of the first new message.
C10_LazyLoad ==
  /\ [] ScrollInList
  /\ [](pc["gesture"] = "lmm_loading" => calls["gesture"] = 0)
  /\ [](pc["gesture"] \in {"lmm_fetch", "lmm_render"} => calls["gesture"] = 1)
  /\ [](pc["gesture"] = "lmm_fetch" =>
          /\ loc.labelId = state.currentLabelId
          /\ loc.token = state.nextPageToken
          /\ loc.token # undefined)
  /\ [][pc["gesture"] = "lmm_fetch" /\ pc'["gesture"] = "lmm_render" =>
          \E r \in ListMessagesResults(loc.token) :
            /\ state'.messages = state.messages \o r.messages
            /\ state'.nextPageToken = r.nextPageToken
            /\ Len(r.messages) >= 1 => state'.messageCursor = Len(state.messages)]_vars

\* a lazy load appended a message and moved the cursor onto it
C10_Witness ==
  /\ pc["gesture"] = "lmm_render"
  /\ state.mode = "MESSAGE_LIST"
  /\ calls["gesture"] = 1
  /\ Len(state.messages) >= 2
  /\ state.messageCursor = Len(state.messages) - 1

\* C10 as stated: a forward scroll at the last item with a token held issues
\* exactly one listMessages call.
C10_ExactlyOneFetch ==
  /\ pc["gesture"] = "lmm_loading" => calls["gesture"] = 0
  /\ pc["gesture"] \in {"render", "lmm_render"} /\ loc.token # undefined
       => calls["gesture"] = 1

(***************************************************************************)
(* The device adapter on its own: the listener that bindEvents registers   *)
(* with the bridge, under events that arrive as time passes.               *)
(***************************************************************************)
MaxEvents == 3
MaxTicks == 4
TickMs == SCROLL_COOLDOWN_MS \div 3

appVars == << state, started, subscribed, queue, chain, pc, mphase, loc, auth, wantLock,
              glass, nextSeq, lastSeq, calls, dropped, api, text, wakeLock >>

\* OsEventTypeList values the listener tells apart; CLICK_EVENT = 0 may arrive
\* as undefined; "OTHER" is any other value
EventTypes == {"SCROLL_TOP_EVENT", "SCROLL_BOTTOM_EVENT", "DOUBLE_CLICK_EVENT", "CLICK_EVENT",
               "undefined", "FOREGROUND_ENTER_EVENT", "FOREGROUND_EXIT_EVENT", "OTHER"}

mapEventToGesture(eventType) ==
  IF eventType = "SCROLL_BOTTOM_EVENT" THEN "SCROLL_BACK"
  ELSE IF eventType = "SCROLL_TOP_EVENT" THEN "SCROLL_FWD"
  ELSE IF eventType = "DOUBLE_CLICK_EVENT" THEN "DOUBLE_TAP"
  ELSE IF eventType \in {"CLICK_EVENT", "undefined"} THEN "TAP"
  ELSE IF eventType = "FOREGROUND_ENTER_EVENT" THEN "FOREGROUND_ENTER"
  ELSE IF eventType = "FOREGROUND_EXIT_EVENT" THEN "FOREGROUND_EXIT"
  ELSE NULL

\* a listener without the cooldown
neverInCooldown(kind, now, lastScrollTime) == FALSE

\* the gesture is a scroll inside the cooldown window
inCooldown(kind, now, lastScrollTime) ==
  /\ kind \in {"SCROLL_FWD", "SCROLL_BACK"}
  /\ now - lastScrollTime < SCROLL_COOLDOWN_MS

\* connect(): waitForBridge settles; with the bridge, bindEvents registers the listener
GlassConnect(ok) ==
  /\ ~adapter.bridge
  /\ adapter' = [adapter EXCEPT !.bridge = ok]
  /\ UNCHANGED hub
  /\ UNCHANGED appVars

\* onGesture(handler)
OnGesture ==
  /\ adapter.gestureHandlers = 0
  /\ adapter' = [adapter EXCEPT !.gestureHandlers = 1]
  /\ UNCHANGED hub
  /\ UNCHANGED appVars

\* time passes (before the listener is bound the clock plays no role)
Tick ==
  /\ adapter.bridge
  /\ hub.now + TickMs <= SCROLL_COOLDOWN_MS + MaxTicks * TickMs
  /\ hub' = [hub EXCEPT !.now = @ + TickMs]
  /\ UNCHANGED adapter
  /\ UNCHANGED appVars

\* the listener of bindEvents runs for one event of the bridge
HubEvent(eventType) ==
  LET gesture == mapEventToGesture(eventType)
      isScroll == gesture \in {"SCROLL_FWD", "SCROLL_BACK"}
      suppressed == inCooldown(gesture, hub.now, adapter.lastScrollTime)
      handed == gesture # NULL /\ ~suppressed /\ adapter.gestureHandlers > 0
  IN  /\ adapter.bridge
      /\ hub.events < MaxEvents
      /\ adapter' = [adapter EXCEPT !.lastScrollTime =
                       IF gesture # NULL /\ isScroll /\ ~suppressed THEN hub.now ELSE @]
      /\ hub' = [hub EXCEPT
                   !.events = @ + 1,
                   !.last = << [type |-> eventType, at |-> hub.now] >>,
                   !.handled = IF handed THEN @ + 1 ELSE @,
                   !.lastCall = IF handed THEN << [kind |-> gesture, at |-> hub.now] >> ELSE @,
                   !.scrolls = IF handed /\ isScroll
                               THEN (IF @ = << >> THEN @ ELSE << @[Len(@)] >>) \o << hub.now >>
                               ELSE @]
      /\ UNCHANGED appVars

NextScroll ==
  \/ \E ok \in BOOLEAN : GlassConnect(ok)
  \/ OnGesture
  \/ Tick
  \/ \E eventType \in EventTypes : HubEvent(eventType)

SpecScroll == InitQueue /\ [][NextScroll]_vars

(***************************************************************************)
(* The device adapter on its own: render calls, one at a time, against a   *)
(* bridge whose commands may succeed, report failure or throw.             *)
(***************************************************************************)
ShowMethods == {"showLabels", "showMessageList", "showReader", "showMessage"}

\* this.currentMode after the render call
ModeAfter(method) ==
  IF method = "showLabels" THEN "labels"
  ELSE IF method = "showMessageList" THEN "messageList"
  ELSE IF method = "showReader" THEN "reader"
  ELSE NULL

\* a command handed to the bridge now
Command(name) == [cmd |-> name, result |-> "pending", issued |-> hub.now, settled |-> hub.now]

\* the command in flight settles with `result` now
Settle(commands, result) ==
  [commands EXCEPT ![Len(commands)].result = result, ![Len(commands)].settled = hub.now]

\* renderContainers that tries again after every failure
afterRebuildRetrying(ok, attempt) == IF ok THEN "done" ELSE "delay"

\* renderContainers after rebuildPageContainer has returned `ok` for the
\* attempt-th time: return, wait and try again, or warn and return
afterRebuild(ok, attempt) ==
  IF ok THEN "done" ELSE IF attempt = 1 THEN "delay" ELSE "warn"

\* the render call returns (or throws): the caller's await settles
RenderReturns(outcome, commands, warned, startupDone) ==
  /\ adapter' = [adapter EXCEPT
                   !.at = "idle",
                   !.method = NULL,
                   !.startupDone = startupDone,
                   !.currentMode = IF outcome = "fulfilled" THEN ModeAfter(adapter.method) ELSE @]
  /\ hub' = [hub EXCEPT !.commands = commands, !.outcome = outcome, !.warned = warned]

\* showLabels / showMessageList / showReader / showMessage up to the first await
\* of renderContainers
ShowCalled(method) ==
  /\ adapter.at = "idle"
  /\ IF ~adapter.bridge
     THEN /\ hub' = [hub EXCEPT !.commands = << >>, !.outcome = "rejected", !.warned = FALSE]
          /\ UNCHANGED adapter
     ELSE /\ adapter' = [adapter EXCEPT
                           !.method = method,
                           !.at = IF adapter.startupDone THEN "rebuild" ELSE "startup"]
          /\ hub' = [hub EXCEPT
                       !.commands = << Command(IF adapter.startupDone
                                               THEN "rebuildPageContainer"
                                               ELSE "createStartUpPageContainer") >>,
                       !.outcome = "pending",
                       !.warned = FALSE,
                       !.renders = Min(@ + 1, 2),
                       !.startups = IF adapter.startupDone THEN @ ELSE Min(@ + 1, 2)]
  /\ UNCHANGED appVars

\* createStartUpPageContainer settles
StartUpSettles(result) ==
  /\ adapter.at = "startup"
  /\ IF result = "success"
     THEN RenderReturns("fulfilled", Settle(hub.commands, result), FALSE, TRUE)
     ELSE RenderReturns("rejected", Settle(hub.commands, result), FALSE, FALSE)
  /\ UNCHANGED appVars

\* rebuildPageContainer settles, the first time or the second
RebuildSettles(result) ==
  /\ adapter.at \in {"rebuild", "retry"}
  /\ IF result = "throws"
     THEN RenderReturns("rejected", Settle(hub.commands, result), FALSE, TRUE)
     ELSE LET then == afterRebuild(result = "true", Len(hub.commands))
          IN  IF then = "delay"
              THEN /\ adapter' = [adapter EXCEPT !.at = "delay",
                                                 !.retryAt = hub.now + RetryDelayMs]
                   /\ hub' = [hub EXCEPT !.commands = Settle(@, result)]
              ELSE RenderReturns("fulfilled", Settle(hub.commands, result), then = "warn", TRUE)
  /\ UNCHANGED appVars

\* the timer of delay(300) fires: the second rebuildPageContainer is issued
DelayElapses ==
  /\ adapter.at = "delay"
  /\ hub.now >= adapter.retryAt
  /\ adapter' = [adapter EXCEPT !.at = "retry"]
  /\ hub' = [hub EXCEPT !.commands = Append(@, Command("rebuildPageContainer"))]
  /\ UNCHANGED appVars

\* updateReaderText up to its first textContainerUpgrade
UpdateReaderTextCalled ==
  /\ adapter.at = "idle"
  /\ IF ~adapter.bridge
     THEN /\ hub' = [hub EXCEPT !.commands = << >>, !.outcome = "rejected", !.warned = FALSE]
          /\ UNCHANGED adapter
     ELSE /\ adapter' = [adapter EXCEPT !.at = "upgrade"]
          /\ hub' = [hub EXCEPT !.commands = << Command("textContainerUpgrade") >>,
                                !.outcome = "pending",
                                !.warned = FALSE]
  /\ UNCHANGED appVars

\* one of the three textContainerUpgrade calls of updateReaderText settles
UpgradeSettles(result) ==
  /\ adapter.at = "upgrade"
  /\ IF result = "throws"
     THEN /\ adapter' = [adapter EXCEPT !.at = "idle"]
          /\ hub' = [hub EXCEPT !.commands = Settle(@, result), !.outcome = "rejected"]
     ELSE IF Len(hub.commands) < 3
     THEN /\ hub' = [hub EXCEPT !.commands =
                       Append(Settle(@, result), Command("textContainerUpgrade"))]
          /\ UNCHANGED adapter
     ELSE /\ adapter' = [adapter EXCEPT !.at = "idle"]
          /\ hub' = [hub EXCEPT !.commands = Settle(@, result), !.outcome = "fulfilled"]
  /\ UNCHANGED appVars

NextRender ==
  \/ \E ok \in BOOLEAN : GlassConnect(ok)
  \/ Tick
  \/ \E method \in ShowMethods : ShowCalled(method)
  \/ \E result \in {"success", "failure", "throws"} : StartUpSettles(result)
  \/ \E result \in {"true", "false", "throws"} : RebuildSettles(result)
  \/ DelayElapses
  \/ UpdateReaderTextCalled
  \/ \E result \in {"resolves", "throws"} : UpgradeSettles(result)

SpecRender == InitQueue /\ [][NextRender]_vars

(***************************************************************************)
(* GmailAdapterImpl.apiFetch on its own, called with its default           *)
(* retry = true (no caller passes another value): one call after another,  *)
(* against a server that answers any status or no answer at all.           *)
(***************************************************************************)
Statuses == {200, 204, 401, 403, 429, 500}

\* the paths the adapter's methods pass to apiFetch
Paths == {"profile", "labels", "messages", "message", "modify"}

\* Response.ok
ok(status) == status \in 200..299

fetchVars == << state, started, subscribed, queue, chain, pc, mphase, loc, wantLock,
                glass, nextSeq, lastSeq, calls, dropped, adapter, hub, text, wakeLock >>

\* apiFetch that answers every 401 with another refresh and retry
onResponseRetrying(status, first) ==
  IF status = 401 THEN "forceRefresh"
  ELSE IF ~ok(status) THEN "throw" ELSE "json"

\* what apiFetch does with the response to its first request, or to the retry
onResponse(status, first) ==
  IF first /\ status = 401 THEN "forceRefresh"
  ELSE IF ~ok(status) THEN "throw" ELSE "json"

\* apiFetch throws, or returns
ApiSettles(outcome, requests) ==
  api' = [api EXCEPT !.at = "idle", !.outcome = outcome, !.requests = requests]

\* refreshAccessToken up to its fetch of the token endpoint (or its throw when
\* no refresh token is stored), awaited at `at`
RefreshAccessToken(call, at) ==
  IF ~auth
  THEN api' = [call EXCEPT !.at = "idle", !.outcome = "rejected", !.accessToken = FALSE]
  ELSE api' = [call EXCEPT !.at = at, !.outcome = "pending", !.accessToken = FALSE,
                           !.refreshes = @ + 1]

\* apiFetch is called: getAccessToken returns the cached token, or refreshes
ApiFetchCalled(path) ==
  /\ api.at = "idle"
  /\ IF api.accessToken
     THEN api' = [api EXCEPT !.at = "request", !.path = path, !.requests = << << >> >>,
                             !.refreshes = 0, !.forced = 0, !.outcome = "pending"]
     ELSE RefreshAccessToken([api EXCEPT !.path = path, !.requests = << >>,
                                         !.refreshes = 0, !.forced = 0],
                             "token")
  /\ UNCHANGED auth
  /\ UNCHANGED fetchVars

\* the cached access token passes tokenExpiresAt
AccessTokenExpires ==
  /\ api.at = "idle"
  /\ api.accessToken
  /\ api' = [api EXCEPT !.accessToken = FALSE]
  /\ UNCHANGED auth
  /\ UNCHANGED fetchVars

\* the fetch of refreshAccessToken settles: a token, a non-OK response (the
\* refresh token is removed), or no response
TokenSettles(result) ==
  /\ api.at \in {"token", "forced"}
  /\ IF result = "token"
     THEN /\ api' = [api EXCEPT !.accessToken = TRUE,
                                !.at = IF api.at = "token" THEN "request" ELSE "retry",
                                !.requests = Append(@, << >>)]
          /\ UNCHANGED auth
     ELSE /\ ApiSettles("rejected", api.requests)
          /\ auth' = IF result = "notOk" THEN FALSE ELSE auth
  /\ UNCHANGED fetchVars

\* the request, or its retry, is answered
ResponseArrives(status) ==
  LET requests == [api.requests EXCEPT ![Len(api.requests)] = << status >>]
      then == onResponse(status, api.at = "request")
  IN  /\ api.at \in {"request", "retry"}
      /\ IF then = "forceRefresh"
         THEN RefreshAccessToken([api EXCEPT !.requests = requests, !.forced = @ + 1], "forced")
         ELSE IF then = "throw" THEN ApiSettles("rejected", requests)
         ELSE api' = [api EXCEPT !.at = "json", !.requests = requests]
      /\ UNCHANGED auth
      /\ UNCHANGED fetchVars

\* fetch itself rejects (no network)
RequestFails ==
  /\ api.at \in {"request", "retry"}
  /\ ApiSettles("rejected", [api.requests EXCEPT ![Len(api.requests)] = << 0 >>])
  /\ UNCHANGED auth
  /\ UNCHANGED fetchVars

\* response.json() settles
JsonSettles(parsed) ==
  /\ api.at = "json"
  /\ ApiSettles(IF parsed THEN "fulfilled" ELSE "rejected", api.requests)
  /\ UNCHANGED auth
  /\ UNCHANGED fetchVars

\* the user signs in again: handleAuthCallback stores a refresh token
TokenStored ==
  /\ api.at = "idle"
  /\ ~auth
  /\ auth' = TRUE
  /\ api' = [api EXCEPT !.accessToken = TRUE]
  /\ UNCHANGED fetchVars

NextFetch ==
  \/ \E path \in Paths : ApiFetchCalled(path)
  \/ TokenStored
  \/ AccessTokenExpires
  \/ \E result \in {"token", "notOk", "none"} : TokenSettles(result)
  \/ \E status \in Statuses : ResponseArrives(status)
  \/ RequestFails
  \/ \E parsed \in BOOLEAN : JsonSettles(parsed)

SpecFetch == Init /\ [][NextFetch]_vars

(***************************************************************************)
(* Frame conditions of the state machine (SpecSM)                          *)
(***************************************************************************)
\* the first n entries of a sequence
Prefix(seq, n) == SubSeq(seq, 1, n)

\* C11: appendMessages changes nothing but the message list, its display lines
\* and the token: mode, cursor, current label and every loaded message and
\* display line stay in place, the new messages and their lines follow them in
\* order, the token is the one given; after an append with no token
\* hasMoreMessages is false and a forward scroll starts no lazy fetch.
C11_AppendFrame ==
  \A messages \in MessagePages(Len(state.messages)), token \in Tokens :
    LET a == appendMessages(state, messages, token)
        n == Len(state.messages)
    IN  /\ a = [state EXCEPT !.messages = a.messages,
                             !.messageDisplayItems = a.messageDisplayItems,
                             !.nextPageToken = a.nextPageToken]
        /\ a.messages = state.messages \o messages
        /\ Prefix(a.messageDisplayItems, Len(state.messageDisplayItems))
             = state.messageDisplayItems
        /\ Len(a.messageDisplayItems) = Len(state.messageDisplayItems) + Len(messages)
        /\ \A i \in 1..Len(messages) :
             a.messageDisplayItems[Len(state.messageDisplayItems) + i]
               = formatMessageLine(messages[i])
        /\ a.nextPageToken = token
        /\ token = undefined =>
             /\ ~hasMoreMessages(a)
             /\ loadMoreMessages(a) = Settled(a)
             /\ \A isAuthenticated \in BOOLEAN :
                  handleGesture(ScrollFwd, a, isAuthenticated).next # "lmm_loading"

\* a list of several messages, extended to its full length, with the cursor
\* past the first message and no token left
C11_Witness ==
  /\ state.mode = "MESSAGE_LIST"
  /\ Len(state.messages) >= 2
  /\ Len(state.messageDisplayItems) = Len(state.messages)
  /\ state.messageCursor >= 1
  /\ state.nextPageToken = undefined

(***************************************************************************)
(* Failure paths of the controller (Spec)                                  *)
(***************************************************************************)
\* the gesture handler is in the catch block of loadMoreMessages, awaiting the
\* re-render of the list (its locals still hold the token it captured)
LoadMoreFailed == pc["gesture"] = "render" /\ loc.token # undefined

RECURSIVE Flatten(_)
Flatten(pages) == IF pages = << >> THEN << >> ELSE Head(pages) \o Flatten(Tail(pages))

ReadMarker == " "

\* the message with that id is in the list, read, and its display line says so
ShownRead(s, messageId) ==
  /\ \E i \in DOMAIN s.messages : s.messages[i].id = messageId
  /\ \A i \in DOMAIN s.messages :
       s.messages[i].id = messageId =>
         /\ ~s.messages[i].isUnread
         /\ s.messageDisplayItems[i] = << ReadMarker, messageId >>

\* C13: when getMessage resolves, in that same step and so before the reader
\* render settles, the opened message is read in the list and in its display
\* line, the mode is READER at page 0 with the pages made of the five header
\* lines followed by the body lines, the reader render is issued and the
\* markAsRead request is left in flight; while the reader is being rendered
\* the message stays read; the handler leaves the reader render without
\* settling the request; and the request settling, fulfilled or rejected,
\* changes neither the state machine, nor the handler's position, nor the display.
C13_OpenMarksRead ==
  [][ /\ (pc["gesture"] = "om_fetch" /\ pc'["gesture"] = "om_render") =>
           /\ ShownRead(state', loc.messageId)
           /\ state'.mode = "READER"
           /\ state'.currentPage = 0
           /\ state'.currentMessageId = loc.messageId
           /\ \E n \in BodyLineCounts :
                /\ Flatten(state'.pages) = [i \in 1..(HeaderLineCount + n) |-> i]
                /\ \A p \in DOMAIN state'.pages :
                     Len(state'.pages[p]) \in 1..LINES_PER_PAGE
           /\ glass' = Call("showReader", "page")
           /\ pc'["markAsRead"] = "pending"
      /\ pc["gesture"] = "om_render" => ShownRead(state, loc.messageId)
      /\ (pc["gesture"] = "om_render" /\ pc'["gesture"] # "om_render"
            /\ pc["markAsRead"] = "pending") => pc'["markAsRead"] = "pending"
      /\ (pc["markAsRead"] = "pending" /\ pc'["markAsRead"] = "idle") =>
           /\ state' = state
           /\ pc'["gesture"] = pc["gesture"]
           /\ glass' = glass
    ]_vars

\* the handler that opened the unread message has finished in READER while the
\* markAsRead request is still in flight
C13_Witness ==
  /\ state.mode = "READER"
  /\ state.currentMessageId = Message(1).id
  /\ ShownRead(state, Message(1).id)
  /\ pc["gesture"] = "idle"
  /\ pc["markAsRead"] = "pending"

(***************************************************************************)
(* Failure of openMessage (Spec)                                           *)
(***************************************************************************)
OpeningMessage == pc["gesture"] \in {"om_loading", "om_fetch", "om_render"}

\* C14: when openMessage fails (its loading indicator, the fetch or the reader
\* render throws), the step into its catch block leaves the mode at
\* MESSAGE_LIST, with the message list and cursor as they were, and issues a
\* render of the message list.
C14_OpenFailureFallsBack ==
  [][ (OpeningMessage /\ pc'["gesture"] \notin {"om_loading", "om_fetch", "om_render", "wake"}) =>
        /\ state'.mode = "MESSAGE_LIST"
        /\ state'.messages = state.messages
        /\ state'.messageCursor = state.messageCursor
        /\ glass'.call \in {"showMessageList", "updateMessageListText"}
    ]_vars

(***************************************************************************)
(* Leaving the reader and the message list (Spec)                          *)
(***************************************************************************)
\* `t` has the messages, cursor and continuation token of `s`, except that
\* unread flags may have been cleared
SameListButRead(s, t) ==
  /\ Len(t.messages) = Len(s.messages)
  /\ \A i \in DOMAIN s.messages :
       /\ t.messages[i].id = s.messages[i].id
       /\ t.messages[i].isUnread => s.messages[i].isUnread
  /\ t.messageCursor = s.messageCursor
  /\ t.nextPageToken = s.nextPageToken

ReaderClosed(s) ==
  /\ s.mode = "MESSAGE_LIST"
  /\ s.pages = << << EmptyLine >> >>
  /\ s.currentPage = 0
  /\ s.currentMessageId = EmptyId
  /\ s.currentSubject = EmptyId

\* C15: in READER a TAP or a DOUBLE_TAP always starts the handler that closes
\* the reader (mode MESSAGE_LIST, one empty page, page 0, message id and
\* subject cleared, messages, cursor and token untouched) and releases the
\* wake lock; once the release has settled the handler issues the full render
\* of the message list and changes nothing else; and from the Tap that opened
\* the message until the reader is left, the messages, cursor and token change
\* in nothing but the unread flag of the opened message.
C15_LeaveReader ==
  [][ /\ state.mode = "READER" =>
           \A k \in {"TAP", "DOUBLE_TAP"} :
             LET e == handleGesture([kind |-> k, seq |-> 0], state, auth)
             IN  /\ e.next = "rd_release"
                 /\ e.lock = "release"
                 /\ ReaderClosed(e.s)
                 /\ e.s.messages = state.messages
                 /\ e.s.messageDisplayItems = state.messageDisplayItems
                 /\ e.s.messageCursor = state.messageCursor
                 /\ e.s.nextPageToken = state.nextPageToken
      /\ (pc["gesture"] # "rd_release" /\ pc'["gesture"] = "rd_release") =>
           /\ state.mode = "READER"
           /\ ReaderClosed(state')
           /\ state'.messages = state.messages
           /\ ~wantLock'
      /\ pc["gesture"] = "rd_release" =>
           /\ ~wantLock
           /\ pc'["gesture"] # "rd_release" =>
                /\ pc'["gesture"] = "render"
                /\ glass' = Call("showMessageList", "list")
                /\ state' = state
      /\ (OpeningMessage \/ state.mode = "READER") =>
           /\ SameListButRead(state, state')
           /\ \A i \in DOMAIN state.messages :
                state'.messages[i].isUnread # state.messages[i].isUnread =>
                  state.messages[i].id = loc.messageId
    ]_vars

\* the reader opened on the unread message has been left again
C15_Witness ==
  /\ pc["gesture"] = "rd_release"
  /\ ReaderClosed(state)
  /\ ~wantLock
  /\ Len(state.messages) > 0
  /\ ~state.messages[1].isUnread

ListCleared(s) ==
  /\ s.mode = "LABELS"
  /\ s.messages = << >>
  /\ s.messageDisplayItems = << >>
  /\ s.messageCursor = 0
  /\ s.currentLabelId = EmptyString
  /\ s.currentLabelName = EmptyString

SameLabels(s, t) ==
  /\ t.labels = s.labels
  /\ t.labelDisplayItems = s.labelDisplayItems
  /\ t.labelCursor = s.labelCursor

\* C16: in MESSAGE_LIST a DOUBLE_TAP always starts a handler whose effect is:
\* mode LABELS, messages, display lines, cursor and current label id and name
\* cleared, labels and label cursor untouched, and a single await, the full
\* render of the label list; the step that starts it does exactly that, and
\* the handler settles after that render without a mailbox call.
C16_BackToLabels ==
  [][ /\ state.mode = "MESSAGE_LIST" =>
           LET e == handleGesture([kind |-> "DOUBLE_TAP", seq |-> 0], state, auth)
           IN  /\ ListCleared(e.s)
               /\ SameLabels(state, e.s)
               /\ e.next = "render"
               /\ e.call = Call("showLabels", "list")
               /\ e.lock = "same"
      /\ (state.mode = "MESSAGE_LIST" /\ pc["gesture"] = "idle"
            /\ pc'["gesture"] = "render" /\ glass' = Call("showLabels", "list")) =>
           /\ ListCleared(state')
           /\ SameLabels(state, state')
           /\ calls'["gesture"] = 0
      /\ (pc["gesture"] = "render" /\ pc'["gesture"] # "render") =>
           /\ pc'["gesture"] \in {"idle", "catch"}
           /\ state' = state
           /\ calls'["gesture"] = 0
    ]_vars

\* the label list is being rendered after a message list was left
C16_Witness ==
  /\ pc["gesture"] = "render"
  /\ glass = Call("showLabels", "list")
  /\ ListCleared(state)
  /\ Len(state.labels) > 0
  /\ state.nextPageToken # undefined

(***************************************************************************)
(* Foreground lifecycle (Spec)                                             *)
(***************************************************************************)
\* the device call that draws the view of mode `m` from scratch
FullRenderOf(m) ==
  IF m = "LABELS" THEN "showLabels"
  ELSE IF m = "MESSAGE_LIST" THEN "showMessageList"
  ELSE IF m = "READER" THEN "showReader"
  ELSE "showMessage"

\* the first device call a handler that starts with effect `e` issues
FirstCall(e) ==
  IF e.call # NoCall THEN e.call.call
  ELSE IF e.next = "fe_acquire" THEN "showReader"
  ELSE IF e.next = "rd_release" THEN "showMessageList"
  ELSE "none"

\* C17: whenever a gesture can be delivered, in whatever mode, FOREGROUND_ENTER
\* starts a handler that leaves the state machine as it is and draws the
\* mode's view with its full render; FOREGROUND_EXIT starts a handler that
\* leaves the state machine as it is, releases the wake lock and issues no
\* device call.
C17_ForegroundLifecycle ==
  (subscribed /\ pc["gesture"] = "idle") =>
    LET enter == handleGesture([kind |-> "FOREGROUND_ENTER", seq |-> 0], state, auth)
        exit == handleGesture([kind |-> "FOREGROUND_EXIT", seq |-> 0], state, auth)
    IN  /\ enter.s = state
        /\ FirstCall(enter) = FullRenderOf(state.mode)
        /\ exit.s = state
        /\ exit.lock = "release"
        /\ FirstCall(exit) = "none"

\* the same, for the modes that have a list or a reader to draw
C17_InListAndReaderModes ==
  (subscribed /\ pc["gesture"] = "idle" /\ state.mode \in {"LABELS", "MESSAGE_LIST", "READER"}) =>
    LET enter == handleGesture([kind |-> "FOREGROUND_ENTER", seq |-> 0], state, auth)
        exit == handleGesture([kind |-> "FOREGROUND_EXIT", seq |-> 0], state, auth)
    IN  /\ enter.s = state
        /\ FirstCall(enter) = FullRenderOf(state.mode)
        /\ exit.s = state
        /\ exit.lock = "release"
        /\ FirstCall(exit) = "none"

(***************************************************************************)
(* Rendering discipline (Spec)                                             *)
(***************************************************************************)
Scrolls == {"SCROLL_FWD", "SCROLL_BACK"}

\* C18: the last device call is never an in-place update of a list view; and
\* whenever a gesture can be delivered, a scroll that moves the label cursor
\* starts with showLabels, one that moves the message cursor starts with
\* showMessageList, one that flips the reader page issues updateReaderText as
\* the handler's only call, and one that leaves the reader page where it is
\* settles without a device call.
C18_RenderingDiscipline ==
  /\ glass.call \notin {"updateLabelListText", "updateMessageListText"}
  /\ (subscribed /\ pc["gesture"] = "idle") =>
       \A k \in Scrolls :
         LET e == handleGesture([kind |-> k, seq |-> 0], state, auth)
         IN  /\ (state.mode = "LABELS" /\ e.s.labelCursor # state.labelCursor) =>
                  FirstCall(e) = "showLabels"
             /\ (state.mode = "MESSAGE_LIST" /\ e.s.messageCursor # state.messageCursor) =>
                  FirstCall(e) = "showMessageList"
             /\ state.mode = "READER" =>
                  IF e.s.currentPage # state.currentPage
                  THEN e.call = Call("updateReaderText", "page") /\ e.next = "render"
                  ELSE e.call = NoCall /\ e.next = "settled"

(***************************************************************************)
(* Scroll debounce of the adapter (SpecScroll)                             *)
(***************************************************************************)
\* C19: the last two scrolls passed to the handlers are at least
\* SCROLL_COOLDOWN_MS apart; the handlers are called only in the step in which
\* an event arrives, once, with that event's gesture; a scroll that arrives
\* less than SCROLL_COOLDOWN_MS after the last scroll passed to the handlers is
\* not passed on and leaves nothing behind in the adapter; a TAP, DOUBLE_TAP,
\* FOREGROUND_ENTER or FOREGROUND_EXIT is passed to the registered handler
\* whatever the cooldown, and no event other than a scroll changes lastScrollTime.
C19_ScrollDebounce ==
  [][ /\ Len(hub.scrolls) = 2 => hub.scrolls[2] - hub.scrolls[1] >= SCROLL_COOLDOWN_MS
      /\ hub'.handled # hub.handled =>
           /\ hub'.events = hub.events + 1
           /\ hub'.handled = hub.handled + 1
           /\ hub'.last[1].at = hub.now
           /\ hub'.lastCall = << [kind |-> mapEventToGesture(hub'.last[1].type),
                                  at |-> hub.now] >>
      /\ hub'.events # hub.events =>
           LET g == mapEventToGesture(hub'.last[1].type)
           IN  /\ (g \in Scrolls /\ hub.scrolls # << >>
                     /\ hub.now - hub.scrolls[Len(hub.scrolls)] < SCROLL_COOLDOWN_MS) =>
                    /\ hub'.handled = hub.handled
                    /\ hub'.lastCall = hub.lastCall
                    /\ adapter' = adapter
               /\ (g \in {"TAP", "DOUBLE_TAP", "FOREGROUND_ENTER", "FOREGROUND_EXIT"}
                     /\ adapter.gestureHandlers > 0) =>
                    /\ hub'.handled = hub.handled + 1
                    /\ adapter' = adapter
               /\ g \notin Scrolls => adapter'.lastScrollTime = adapter.lastScrollTime
    ]_vars

\* a scroll was passed to the handler, and a later scroll, the last event so
\* far, was not; and two scrolls have been passed on
C19_Witness ==
  /\ adapter.gestureHandlers = 1
  /\ hub.last # << >>
  /\ hub.lastCall # << >>
  /\ hub.last[1].type = "SCROLL_TOP_EVENT"
  /\ hub.lastCall[1].kind = "SCROLL_BACK"
  /\ hub.lastCall[1].at < hub.last[1].at
  /\ Len(hub.scrolls) = 2

(***************************************************************************)
(* Bounded retry of device commands (SpecRender)                           *)
(***************************************************************************)
RebuildsOf(commands) ==
  { i \in DOMAIN commands : commands[i].cmd = "rebuildPageContainer" }

Succeeded(command) == command.result \in {"success", "true", "resolves"}

\* C20: one render call hands rebuildPageContainer to the bridge at most twice
\* and at most three commands in all; a second rebuildPageContainer follows
\* only a first one that returned false, RetryDelayMs or more after it; when
\* the second returns false too the call has ended, fulfilled, with the
\* warning logged; and no command other than that one retry is issued after a
\* command that did not succeed.
C20_BoundedRetry ==
  /\ Cardinality(RebuildsOf(hub.commands)) <= 2
  /\ Len(hub.commands) <= 3
  /\ Cardinality(RebuildsOf(hub.commands)) = 2 =>
       /\ Len(hub.commands) = 2
       /\ hub.commands[1].result = "false"
       /\ hub.commands[2].issued - hub.commands[1].settled >= RetryDelayMs
       /\ hub.commands[2].result = "false" =>
            /\ adapter.at = "idle"
            /\ hub.outcome = "fulfilled"
            /\ hub.warned
  /\ \A i \in DOMAIN hub.commands :
       (i < Len(hub.commands) /\ ~Succeeded(hub.commands[i])) =>
         /\ i = 1
         /\ RebuildsOf(hub.commands) = {1, 2}
  /\ hub.warned => Cardinality(RebuildsOf(hub.commands)) = 2

\* rebuildPageContainer has returned false twice in one render call
C20_Witness ==
  /\ Len(hub.commands) = 2
  /\ hub.commands[1].cmd = "rebuildPageContainer"
  /\ hub.commands[1].result = "false"
  /\ hub.commands[2].cmd = "rebuildPageContainer"
  /\ hub.commands[2].result = "false"
  /\ hub.outcome = "fulfilled"
  /\ adapter.currentMode = "labels"

MaxLine == 5
MaxWidth == 3
MaxLines == 4
MaxPages == 2

\* the characters of the inputs: two letters and a white-space character
Chars == {"a", "b", " "}
\* \s of the regular expressions, and what trimStart removes
IsSpace(c) == c \in {" ", "\t", "\n", "\r"}

SeqsUpTo(S, n) == UNION { [1..k -> S] : k \in 0..n }

\* line.match(/^\s*/)[0]
RECURSIVE leadingWhitespaceOf(_)
leadingWhitespaceOf(line) ==
  IF line = << >> \/ ~IsSpace(Head(line)) THEN << >>
  ELSE << Head(line) >> \o leadingWhitespaceOf(Tail(line))

\* line.trimStart()
trimStart(line) == Slice(line, Len(leadingWhitespaceOf(line)), Len(line))

\* content.split(/\s+/).filter((w) => w.length > 0): the maximal runs of
\* characters that are not white space; word is the run being read
RECURSIVE splitWords(_, _)
splitWords(content, word) ==
  LET done == IF word = << >> THEN << >> ELSE << word >>
  IN  IF content = << >> THEN done
      ELSE IF IsSpace(Head(content)) THEN done \o splitWords(Tail(content), << >>)
      ELSE splitWords(Tail(content), Append(word, Head(content)))

\* pushCurrent(): the value of wrapped afterwards (current becomes "")
pushCurrent(wrapped, current, leadingWhitespace, maxChars) ==
  IF Len(current) > 0
  THEN Append(wrapped, Slice(leadingWhitespace \o current, 0, maxChars))
  ELSE wrapped

\* the while loop that breaks a long word: << wrapped, remaining >> at its exit
RECURSIVE breakWord(_, _, _, _)
breakWord(remaining, wrapped, leadingWhitespace, effectiveWidth) ==
  IF Len(remaining) > effectiveWidth
  THEN breakWord(Slice(remaining, effectiveWidth, Len(remaining)),
                 Append(wrapped, leadingWhitespace \o Slice(remaining, 0, effectiveWidth)),
                 leadingWhitespace, effectiveWidth)
  ELSE << wrapped, remaining >>

\* the for loop over the words followed by the last pushCurrent()
RECURSIVE wrapWords(_, _, _, _, _, _)
wrapWords(words, wrapped, current, leadingWhitespace, effectiveWidth, maxChars) ==
  IF words = << >> THEN pushCurrent(wrapped, current, leadingWhitespace, maxChars)
  ELSE LET word == Head(words)
           rest == Tail(words)
           pushed == pushCurrent(wrapped, current, leadingWhitespace, maxChars)
       IN  IF Len(word) > effectiveWidth
           THEN LET broken == breakWord(word, pushed, leadingWhitespace, effectiveWidth)
                IN  wrapWords(rest, broken[1], broken[2],
                              leadingWhitespace, effectiveWidth, maxChars)
           ELSE IF Len(current) = 0
           THEN wrapWords(rest, wrapped, word, leadingWhitespace, effectiveWidth, maxChars)
           ELSE IF Len(current) + 1 + Len(word) <= effectiveWidth
           THEN wrapWords(rest, wrapped, current \o << " " >> \o word,
                          leadingWhitespace, effectiveWidth, maxChars)
           ELSE wrapWords(rest, pushed, word, leadingWhitespace, effectiveWidth, maxChars)

wrapLine(line, maxChars) ==
  IF maxChars <= 0 THEN << line >>
  ELSE IF Len(line) <= maxChars THEN << line >>
  ELSE LET leadingWhitespace == leadingWhitespaceOf(line)
           content == trimStart(line)
           effectiveWidth == Max(1, maxChars - Len(leadingWhitespace))
           words == splitWords(content, << >>)
       IN  IF Len(words) = 0 THEN << Slice(line, 0, maxChars) >>
           ELSE LET wrapped == wrapWords(words, << >>, << >>,
                                         leadingWhitespace, effectiveWidth, maxChars)
                IN  IF Len(wrapped) > 0 THEN wrapped ELSE << << >> >>

RECURSIVE wrapEach(_, _)
wrapEach(lines, maxChars) ==
  IF lines = << >> THEN << >>
  ELSE wrapLine(Head(lines), maxChars) \o wrapEach(Tail(lines), maxChars)

wrapLines(lines, maxChars) ==
  LET wrapped == wrapEach(lines, maxChars)
  IN  IF Len(wrapped) > 0 THEN wrapped ELSE << << >> >>

textVars == << state, started, subscribed, queue, chain, pc, mphase, loc, auth, wantLock,
               glass, nextSeq, lastSeq, calls, dropped, adapter, hub, api, wakeLock >>

\* wrapLine(line, maxChars) is called
WrapLineCalled(line, maxChars) ==
  /\ text' = [fn |-> "wrapLine", arg |-> line, n |-> maxChars, index |-> 0,
              out |-> wrapLine(line, maxChars)]
  /\ UNCHANGED textVars

MaxPerPage == 3
MaxPageLines == 2

\* the lines handed to paginate, and those of the pages handed to getPageText
TextLines == {<< >>, << "a" >>, << "b" >>}
PageLines == {<< >>, << "a" >>}
\* "\n"
Newline == "\n"

\* Array.prototype.join(sep)
RECURSIVE join(_, _)
join(lines, sep) ==
  IF lines = << >> THEN << >>
  ELSE IF Len(lines) = 1 THEN lines[1]
  ELSE lines[1] \o << sep >> \o join(Tail(lines), sep)

\* getPageText without the padding loop
getPageTextUnpadded(pages, index, linesPerPage) ==
  LET safeIndex == Max(0, Min(index, Len(pages) - 1))
      page == IF safeIndex < Len(pages) THEN pages[safeIndex + 1] ELSE << << >> >>
  IN  join(page, Newline)

\* the while loop of getPageText: push "" while padded.length < linesPerPage
RECURSIVE padTo(_, _)
padTo(padded, linesPerPage) ==
  IF Len(padded) < linesPerPage THEN padTo(Append(padded, << >>), linesPerPage)
  ELSE padded

getPageText(pages, index, linesPerPage) ==
  LET safeIndex == Max(0, Min(index, Len(pages) - 1))
      page == IF safeIndex < Len(pages) THEN pages[safeIndex + 1] ELSE << << >> >>
  IN  join(padTo(page, linesPerPage), Newline)

\* paginate(wrappedLines, linesPerPage) is called
PaginateCalled(wrappedLines, linesPerPage) ==
  /\ text' = [fn |-> "paginate", arg |-> wrappedLines, n |-> linesPerPage, index |-> 0,
              out |-> paginate(wrappedLines, linesPerPage)]
  /\ UNCHANGED textVars

\* getPageText(pages, index, linesPerPage) is called
GetPageTextCalled(pages, index, linesPerPage) ==
  /\ text' = [fn |-> "getPageText", arg |-> pages, n |-> linesPerPage, index |-> index,
              out |-> getPageText(pages, index, linesPerPage)]
  /\ UNCHANGED textVars

NextText ==
  \/ /\ text = NoText
     /\ \E line \in SeqsUpTo(Chars, MaxLine), maxChars \in 0..MaxWidth :
          WrapLineCalled(line, maxChars)
  \/ /\ text = NoText
     /\ \E wrappedLines \in SeqsUpTo(TextLines, MaxLines), linesPerPage \in (-1)..MaxPerPage :
          PaginateCalled(wrappedLines, linesPerPage)
  \/ /\ text = NoText
     /\ \E pages \in SeqsUpTo(SeqsUpTo(PageLines, MaxPageLines), MaxPages),
           index \in (-1)..MaxPages, linesPerPage \in 0..MaxPerPage :
          GetPageTextCalled(pages, index, linesPerPage)

SpecText == Init /\ [][NextText]_vars

\* C22: for every line and every maxWidth >= 1, each line returned by
\* wrapLine(line, maxWidth) has at most maxWidth characters
C22_WrappedLinesFit ==
  (text.fn = "wrapLine" /\ text.n >= 1) =>
    \A i \in 1..Len(text.out) : Len(text.out[i]) <= text.n

\* a line of white space as wide as the width followed by a two-letter word
C22_NarrowInput ==
  text.fn = "wrapLine" /\ text.arg = << " ", " ", "a", "b" >> /\ text.n = 2

\* C23: word wrap is idempotent: for every line l and width w >= 1,
\* wrapLines(wrapLine(l, w), w) equals wrapLine(l, w)
C23_WrapIdempotent ==
  (text.fn = "wrapLine" /\ text.n >= 1) => wrapLines(text.out, text.n) = text.out

\* the lines of a result fit the width exactly when wrapping it again changes nothing
C23_IdempotentWhereFitting ==
  (text.fn = "wrapLine" /\ text.n >= 1) =>
    (C22_WrappedLinesFit <=> wrapLines(text.out, text.n) = text.out)

\* the lines fit whenever the leading white space is shorter than the width
C22_FitsWithShortIndent ==
  (text.fn = "wrapLine" /\ text.n >= 1 /\ Len(leadingWhitespaceOf(text.arg)) < text.n) =>
    \A i \in 1..Len(text.out) : Len(text.out[i]) <= text.n

\* C24: paginate(lines, n) partitions its input: the pages concatenated in order
\* are the input exactly; for n > 0 and a non-empty input every page but the
\* last has n lines and the last has 1..n; there is always at least one page,
\* and for an empty input or n <= 0 a single page holds all the input
C24_PaginatePartitions ==
  text.fn = "paginate" =>
    LET lines == text.arg
        n == text.n
        pages == text.out
    IN  /\ Flatten(pages) = lines
        /\ Len(pages) >= 1
        /\ (n > 0 /\ lines # << >>) =>
             /\ \A p \in 1..(Len(pages) - 1) : Len(pages[p]) = n
             /\ Len(pages[Len(pages)]) \in 1..n
        /\ (n <= 0 \/ lines = << >>) => pages = << lines >>

\* four different lines, three to a page: a full page and a last page of one line
C24_Witness ==
  /\ text.fn = "paginate"
  /\ text.arg = << << "a" >>, << >>, << "b" >>, << "a" >> >>
  /\ text.n = 3
  /\ Len(text.out) = 2
  /\ Len(text.out[2]) = 1

\* the lines of a text: what lies between its newlines (String.prototype.split)
RECURSIVE LinesOf(_, _)
LinesOf(str, line) ==
  IF str = << >> THEN << line >>
  ELSE IF Head(str) = Newline THEN << line >> \o LinesOf(Tail(str), << >>)
  ELSE LinesOf(Tail(str), Append(line, Head(str)))

\* the page at index, index brought into 0 .. Len(pages) - 1
ClampedPage(pages, index) ==
  IF index < 0 THEN pages[1]
  ELSE IF index >= Len(pages) THEN pages[Len(pages)]
  ELSE pages[index + 1]

\* C25: getPageText(pages, index, linesPerPage) selects the page at index clamped
\* into [0, pages.length - 1], for an index below zero or past the end too, and
\* when that page has at most linesPerPage lines the result is exactly
\* linesPerPage lines joined by newlines: the lines of the page in order, then
\* empty lines
C25_PageTextPadded ==
  (text.fn = "getPageText" /\ Len(text.arg) >= 1) =>
    LET page == ClampedPage(text.arg, text.index)
        padding == [i \in 1..(text.n - Len(page)) |-> << >>]
    IN  Len(page) <= text.n =>
          IF text.n = 0 THEN text.out = << >>
          ELSE /\ LinesOf(text.out, << >>) = page \o padding
               /\ Len(LinesOf(text.out, << >>)) = text.n

\* an index past the end selects the last page, whose single line is padded to three
C25_Witness ==
  /\ text.fn = "getPageText"
  /\ text.arg = << << << >>, << "a" >> >>, << << "a" >> >> >>
  /\ text.index = 2
  /\ text.n = 3
  /\ text.out = << "a", Newline, Newline >>

(***************************************************************************)
(* setLabels on mixed lists of labels (SpecLabels)                         *)
(***************************************************************************)
MaxLabels == 4

\* labels a mailbox may hold: system labels the application lists, system
\* labels it does not, user labels, and a user label that took a system id
LabelPool ==
  { Label("INBOX", "INBOX", "system"), Label("UNREAD", "UNREAD", "system"),
    Label("SENT", "Zeta", "user"), Label("CHAT", "CHAT", "system"),
    Label("Label_1", "Zeta", "user"), Label("Label_2", "Alpha", "user"),
    Label("Label_3", "Beta", "user") }

\* stateMachine.setLabels(labels) on the state after construction
SetLabelsCalled(labels) ==
  /\ text' = [fn |-> "setLabels", arg |-> labels, n |-> 0, index |-> 0, out |-> << >>]
  /\ state' = setLabels(state, labels)
  /\ UNCHANGED << started, subscribed, queue, chain, pc, mphase, loc, auth, wantLock,
                  glass, nextSeq, lastSeq, calls, dropped, adapter, hub, api, wakeLock >>

NextLabels ==
  /\ text = NoText
  /\ \E labels \in SeqsUpTo(LabelPool, MaxLabels) : SetLabelsCalled(labels)

SpecLabels == Init /\ [][NextLabels]_vars

\* the system ids in their canonical order, with the names shown for them
CanonicalLabels ==
  << << "INBOX", "Inbox" >>, << "STARRED", "Starred" >>, << "SENT", "Sent" >>,
     << "DRAFT", "Drafts" >>, << "SPAM", "Spam" >>, << "TRASH", "Trash" >>,
     << "IMPORTANT", "Important" >>, << "UNREAD", "Unread" >> >>
CanonicalAt(id) ==
  IF \E k \in DOMAIN CanonicalLabels : CanonicalLabels[k][1] = id
  THEN CHOOSE k \in DOMAIN CanonicalLabels : CanonicalLabels[k][1] = id
  ELSE 0
\* a label as it is to be stored, and whether it is to be stored at all
Stored(l) ==
  IF CanonicalAt(l.id) > 0 THEN [l EXCEPT !.name = CanonicalLabels[CanonicalAt(l.id)][2]] ELSE l
Kept(l) == CanonicalAt(l.id) > 0 \/ l.type = "user"
Occurrences(seq, x) == Cardinality({i \in DOMAIN seq : seq[i] = x})

\* C26: after setLabels(input) the stored list is the labels with a recognized
\* system id, in canonical order and under their friendly names, followed by the
\* remaining labels of type user in alphabetical order of name; labels that are
\* neither are dropped, and nothing else is dropped or added
C26_LabelSort ==
  text.fn = "setLabels" =>
    LET input == text.arg
        labels == state.labels
        kept == SelectSeq(input, Kept)
        IsSystem(i) == CanonicalAt(labels[i].id) > 0
    IN  /\ \A i, j \in DOMAIN labels :
             i < j =>
               /\ IsSystem(j) => IsSystem(i)
               /\ (IsSystem(i) /\ IsSystem(j)) =>
                    CanonicalAt(labels[i].id) <= CanonicalAt(labels[j].id)
               /\ (~IsSystem(i) /\ ~IsSystem(j)) =>
                    localeRank(labels[i].name) <= localeRank(labels[j].name)
        /\ \A i \in DOMAIN labels :
             /\ IsSystem(i) => labels[i].name = CanonicalLabels[CanonicalAt(labels[i].id)][2]
             /\ ~IsSystem(i) => labels[i].type = "user"
        /\ Len(labels) = Len(kept)
        /\ \A i \in DOMAIN kept :
             Occurrences(labels, Stored(kept[i])) =
               Cardinality({j \in DOMAIN kept : Stored(kept[j]) = Stored(kept[i])})

\* an unlisted system label is dropped, Unread comes first under its friendly
\* name, the two user labels follow in alphabetical order
C26_Witness ==
  /\ text.fn = "setLabels"
  /\ text.arg = << Label("CHAT", "CHAT", "system"), Label("Label_1", "Zeta", "user"),
                   Label("UNREAD", "UNREAD", "system"), Label("Label_2", "Alpha", "user") >>
  /\ state.labels = << Label("UNREAD", "Unread", "system"), Label("Label_2", "Alpha", "user"),
                       Label("Label_1", "Zeta", "user") >>

(***************************************************************************)
(* Totality of the state machine (SpecSM)                                  *)
(***************************************************************************)
\* the indices tried: below zero, inside and past the end of every list
Indexes == (0 - MaxDelta)..(MaxMessages + MaxDelta)

\* a state of the machine: every field present and of its type
WellFormed(s) ==
  /\ DOMAIN s = DOMAIN InitialState
  /\ s.mode \in AppMode
  /\ s.labelCursor \in Nat /\ s.messageCursor \in Nat /\ s.currentPage \in Nat
  /\ Len(s.labelDisplayItems) = Len(s.labels)
  /\ Len(s.messageDisplayItems) = Len(s.messages)
  /\ s.mode = "ERROR" => s.errorMessage # NULL

\* every operation, applied to s with every argument, yields a state
DefinedOn(s) ==
  /\ WellFormed(setAuthRequired(s))
  /\ WellFormed(setError(s, ErrorText("error")))
  /\ \A labels \in LabelInputs : WellFormed(setLabels(s, labels))
  /\ \A messages \in MessagePages(0), token \in Tokens :
       WellFormed(setMessages(s, "INBOX", "Inbox", messages, token))
  /\ \A messages \in MessagePages(Len(s.messages)), token \in Tokens :
       WellFormed(appendMessages(s, messages, token))
  /\ \A messageId \in MessageIds :
       /\ WellFormed(markMessageRead(s, messageId))
       /\ \A pages \in PageInputs \cup {<< >>} :
            WellFormed(enterReader(s, messageId, SubjectOf(messageId), pages))
  /\ \A delta \in Deltas :
       /\ WellFormed(moveLabelCursor(s, delta)[1])
       /\ WellFormed(moveMessageCursor(s, delta)[1])
  /\ WellFormed(nextPage(s)[1]) /\ WellFormed(prevPage(s)[1])
  /\ WellFormed(backToLabels(s)) /\ WellFormed(backToMessageList(s))
  /\ hasMoreMessages(s) \in BOOLEAN /\ cursorAtEnd(s) \in BOOLEAN

\* C27: the operations of the state machine are total: in every reachable state
\* and for every argument each yields a result; getLabelAtIndex, getMessageAtIndex,
\* getLabelAtCursor and getMessageAtCursor return null for an index outside
\* [0, length - 1], on an empty list too; a cursor or page move that is
\* impossible returns false and leaves the state as it was
C27_OperationsTotal ==
  /\ DefinedOn(state)
  /\ \A i \in Indexes :
       /\ ~InRange(i, state.labels) => getLabelAtIndex(state, i) = null
       /\ ~InRange(i, state.messages) => getMessageAtIndex(state, i) = null
       /\ InRange(i, state.labels) => getLabelAtIndex(state, i) = << state.labels[i + 1] >>
       /\ InRange(i, state.messages) =>
            getMessageAtIndex(state, i) = << state.messages[i + 1] >>
  /\ ~InRange(state.labelCursor, state.labels) => getLabelAtCursor(state) = null
  /\ ~InRange(state.messageCursor, state.messages) => getMessageAtCursor(state) = null
  /\ \A delta \in Deltas :
       /\ ~InRange(state.labelCursor + delta, state.labels) =>
            moveLabelCursor(state, delta) = << state, FALSE >>
       /\ ~InRange(state.messageCursor + delta, state.messages) =>
            moveMessageCursor(state, delta) = << state, FALSE >>
  /\ ~InRange(state.currentPage + 1, state.pages) => nextPage(state) = << state, FALSE >>
  /\ ~InRange(state.currentPage - 1, state.pages) => prevPage(state) = << state, FALSE >>

\* an empty message list is shown: nothing is under the cursor or at any index,
\* and no move is possible
C27_Witness ==
  /\ state.mode = "MESSAGE_LIST"
  /\ state.messages = << >>
  /\ getMessageAtCursor(state) = null
  /\ getMessageAtIndex(state, 0) = null
  /\ moveMessageCursor(state, 1) = << state, FALSE >>
  /\ nextPage(state) = << state, FALSE >>

\* an id that no message of the model carries
AbsentId == << MaxMessages + 1 >>

\* C28: markMessageRead(id) sets the unread flag of the message with that id to
\* false and regenerates that message's display line in place; every other
\* message and display line, the order and length of the list, the cursor, the
\* continuation token and the mode stay as they were; it does nothing when the
\* id is not in the list, and applying it twice equals applying it once
C28_MarkReadFrame ==
  \A messageId \in MessageIds \cup {AbsentId} :
    LET t == markMessageRead(state, messageId)
        at == {i \in DOMAIN state.messages : state.messages[i].id = messageId}
    IN  /\ at = {} => t = state
        /\ \A i \in at :
             /\ ~t.messages[i].isUnread
             /\ t.messages[i] = [state.messages[i] EXCEPT !.isUnread = FALSE]
             /\ t.messageDisplayItems[i] = formatMessageLine(t.messages[i])
        /\ Len(t.messages) = Len(state.messages)
        /\ Len(t.messageDisplayItems) = Len(state.messageDisplayItems)
        /\ \A j \in DOMAIN state.messages \ at :
             /\ t.messages[j] = state.messages[j]
             /\ t.messageDisplayItems[j] = state.messageDisplayItems[j]
        /\ t = [state EXCEPT !.messages = t.messages,
                             !.messageDisplayItems = t.messageDisplayItems]
        /\ markMessageRead(t, messageId) = t

\* the first message, unread when listed, is read and shown so; the second is as listed
C28_Witness ==
  /\ Len(state.messages) >= 2
  /\ state.messages[1] = [Message(1) EXCEPT !.isUnread = FALSE]
  /\ state.messageDisplayItems[1] = formatMessageLine(state.messages[1])
  /\ Message(1).isUnread
  /\ state.messages[2] = Message(2)
  /\ state.messageCursor = 1

\* C29: stale errors are cleared on every transition to a mode other than Error:
\* after any sequence of state-machine operations the stored error message is
\* non-null only while the mode is Error
C29_ErrorOnlyInErrorMode ==
  state.errorMessage # NULL => state.mode = "ERROR"

\* the operations that assign errorMessage leave the pairing intact
C29_ClearedBySetters ==
  /\ setAuthRequired(state).errorMessage = NULL
  /\ \A labels \in LabelInputs : setLabels(state, labels).errorMessage = NULL
  /\ \A messages \in MessagePages(0), token \in Tokens :
       setMessages(state, "INBOX", "Inbox", messages, token).errorMessage = NULL
  /\ \A messageId \in MessageIds, pages \in PageInputs :
       enterReader(state, messageId, SubjectOf(messageId), pages).errorMessage = NULL

(***************************************************************************)
(* Content normalizer: htmlToPlainText (SpecHtml).  What DOMParser and the *)
(* traversal of the document give is an input: either they throw or they   *)
(* leave some text in parts.                                               *)
(***************************************************************************)
MaxRawText == 2
MaxFallback == 3

\* a character outside printable ASCII
NonAscii == "U+00E9"
\* the characters of parts.join("") and of the plain-text body
RawChars == {"a", " ", "\n"}
FallbackChars == {"a", " ", "\n", "\r", NonAscii}
\* markup bodies: none, white space only, some markup
HtmlInputs == {<< >>, << " " >>, << "<", "p", ">" >>}
ParseOutcomes ==
  {[threw |-> TRUE, rawText |-> << >>]}
    \cup {[threw |-> FALSE, rawText |-> r] : r \in SeqsUpTo(RawChars, MaxRawText)}

\* (empty)
Placeholder == << "(", "e", "m", "p", "t", "y", ")" >>

\* /[^\x09\x20-\x7E]/: what stripNonAscii removes
Unprintable(c) == c \in {NonAscii, "\n", "\r"}
Printable(c) == ~Unprintable(c)
stripNonAscii(str) == SelectSeq(str, Printable)

\* String.prototype.trimEnd and trim
RECURSIVE trimEnd(_)
trimEnd(str) ==
  IF str = << >> \/ ~IsSpace(str[Len(str)]) THEN str
  ELSE trimEnd(SubSeq(str, 1, Len(str) - 1))
trim(str) == trimEnd(trimStart(str))

\* str.replace(/\r\n?/g, "\n")
RECURSIVE normalizeLineEndings(_)
normalizeLineEndings(str) ==
  IF str = << >> THEN << >>
  ELSE IF Head(str) = "\r"
  THEN << "\n" >> \o normalizeLineEndings(
         IF Len(str) >= 2 /\ str[2] = "\n" THEN Tail(Tail(str)) ELSE Tail(str))
  ELSE << Head(str) >> \o normalizeLineEndings(Tail(str))

\* str.split("\n"); line is the piece being read
RECURSIVE split(_, _)
split(str, line) ==
  IF str = << >> THEN << line >>
  ELSE IF Head(str) = "\n" THEN << line >> \o split(Tail(str), << >>)
  ELSE split(Tail(str), Append(line, Head(str)))

\* the for loop of collapseBlankLines
RECURSIVE collapseRuns(_, _, _)
collapseRuns(lines, result, prevBlank) ==
  IF lines = << >> THEN result
  ELSE LET trimmed == trimEnd(Head(lines))
           isBlank == Len(trim(trimmed)) = 0
       IN  IF isBlank
           THEN collapseRuns(Tail(lines),
                             IF ~prevBlank THEN Append(result, << >>) ELSE result, TRUE)
           ELSE collapseRuns(Tail(lines), Append(result, trimmed), FALSE)

\* while (result[0] === "") result.shift()
RECURSIVE dropLeadingBlanks(_)
dropLeadingBlanks(result) ==
  IF result # << >> /\ Head(result) = << >> THEN dropLeadingBlanks(Tail(result)) ELSE result
\* while (result[result.length - 1] === "") result.pop()
RECURSIVE dropTrailingBlanks(_)
dropTrailingBlanks(result) ==
  IF result # << >> /\ result[Len(result)] = << >>
  THEN dropTrailingBlanks(SubSeq(result, 1, Len(result) - 1)) ELSE result

collapseBlankLines(lines) ==
  dropTrailingBlanks(dropLeadingBlanks(collapseRuns(lines, << >>, FALSE)))

\* the plain-text path: the same three statements in each branch of htmlToPlainText
fromPlainFallback(plainFallback) ==
  IF plainFallback # << >> /\ Len(trim(plainFallback)) > 0
  THEN LET lines == split(normalizeLineEndings(plainFallback), << >>)
       IN  collapseBlankLines([i \in DOMAIN lines |-> stripNonAscii(lines[i])])
  ELSE << Placeholder >>

\* htmlToPlainText that gives the placeholder without looking at the plain text
htmlToPlainTextWithoutFallback(html, parsed, plainFallback) ==
  LET lines == split(parsed.rawText, << >>)
      collapsed == collapseBlankLines([i \in DOMAIN lines |-> stripNonAscii(trim(lines[i]))])
  IN  IF html = << >> \/ Len(trim(html)) = 0 \/ parsed.threw \/ Len(collapsed) = 0
      THEN << Placeholder >>
      ELSE collapsed

\* htmlToPlainText(html, plainFallback), parsed being what the try block meets
htmlToPlainText(html, parsed, plainFallback) ==
  IF html = << >> \/ Len(trim(html)) = 0 THEN fromPlainFallback(plainFallback)
  ELSE IF parsed.threw THEN fromPlainFallback(plainFallback)
  ELSE LET lines == split(parsed.rawText, << >>)
           collapsed ==
             collapseBlankLines([i \in DOMAIN lines |-> stripNonAscii(trim(lines[i]))])
       IN  IF Len(collapsed) = 0 \/ (Len(collapsed) = 1 /\ collapsed[1] = << >>)
           THEN fromPlainFallback(plainFallback)
           ELSE collapsed

\* htmlToPlainText(html, plainFallback) is called
HtmlToPlainTextCalled(html, parsed, plainFallback) ==
  /\ text' = [fn |-> "htmlToPlainText",
              arg |-> [html |-> html, parsed |-> parsed, plainFallback |-> plainFallback],
              n |-> 0, index |-> 0,
              out |-> htmlToPlainText(html, parsed, plainFallback)]
  /\ UNCHANGED textVars

NextHtml ==
  /\ text = NoText
  /\ \E html \in HtmlInputs, parsed \in ParseOutcomes,
        plainFallback \in SeqsUpTo(FallbackChars, MaxFallback) :
       HtmlToPlainTextCalled(html, parsed, plainFallback)

SpecHtml == Init /\ [][NextHtml]_vars

\* the plain text as the fallback path hands it on: line endings normalized,
\* split into lines, filtered to ASCII, runs of blank lines collapsed
NormalizedPlainText(plainFallback) ==
  LET lines == split(normalizeLineEndings(plainFallback), << >>)
  IN  collapseBlankLines([i \in DOMAIN lines |-> stripNonAscii(lines[i])])

\* the markup gives nothing: it is empty or white space, or parsing it threw, or
\* what was parsed normalizes to no line
MarkupGivesNothing(arg) ==
  LET lines == split(arg.parsed.rawText, << >>)
  IN  \/ \A i \in DOMAIN arg.html : IsSpace(arg.html[i])
      \/ arg.parsed.threw
      \/ collapseBlankLines([i \in DOMAIN lines |-> stripNonAscii(trim(lines[i]))]) = << >>

\* C30 as stated: when the markup body is empty or white space only, or parsing it
\* throws, or it normalizes to nothing, the result is the normalized plain-text
\* fallback if the fallback is non-empty, and the single placeholder line otherwise
C30_FallbackChain ==
  (text.fn = "htmlToPlainText" /\ MarkupGivesNothing(text.arg)) =>
    text.out = IF text.arg.plainFallback # << >>
               THEN NormalizedPlainText(text.arg.plainFallback)
               ELSE << Placeholder >>

\* C30, amended: in those cases the result is the normalized plain-text fallback
\* if the fallback has a character that is not white space, and the single
\* placeholder line otherwise (for an empty and for a white-space-only fallback);
\* when the markup gives some line the result is the markup's lines
C30_FallbackChainOnText ==
  text.fn = "htmlToPlainText" =>
    LET plainFallback == text.arg.plainFallback
        lines == split(text.arg.parsed.rawText, << >>)
    IN  IF MarkupGivesNothing(text.arg)
        THEN text.out =
               IF \E i \in DOMAIN plainFallback : ~IsSpace(plainFallback[i])
               THEN NormalizedPlainText(plainFallback)
               ELSE << Placeholder >>
        ELSE text.out =
               collapseBlankLines([i \in DOMAIN lines |-> stripNonAscii(trim(lines[i]))])

\* parsing threw; the fallback "a", carriage return, non-ASCII character gives the line "a"
C30_Witness ==
  /\ text.fn = "htmlToPlainText"
  /\ text.arg.html = << "<", "p", ">" >>
  /\ text.arg.parsed.threw
  /\ text.arg.plainFallback = << "a", "\r", NonAscii >>
  /\ text.out = << << "a" >> >>

\* a fallback of white space only gives the placeholder
C30_BlankFallback ==
  /\ text.fn = "htmlToPlainText"
  /\ text.arg.html = << >>
  /\ text.arg.plainFallback = << " ", "\n" >>
  /\ text.out = << Placeholder >>

(***************************************************************************)
(* Display lines of the lists (SpecDisplay): formatMessageLine and the     *)
(* label display items of setLabels, computed on the characters.  A sender *)
(* is a run of "f", a subject a run of "s", a label name a run of "n".     *)
(***************************************************************************)
CHARS_PER_LINE == 64
MaxFrom == 16
MaxSubject == 60
MaxName == 66

\* messagesUnread of a label: absent or zero, and counts of one to four digits
UnreadCounts == {0, 7, 42, 1000}

Run(c, k) == [i \in 1..k |-> c]
Ellipsis == << ".", ".", "." >>
Digits == << "0", "1", "2", "3", "4", "5", "6", "7", "8", "9" >>

\* a number in a template literal
RECURSIVE numberToString(_)
numberToString(n) ==
  IF n < 10 THEN << Digits[n + 1] >>
  ELSE numberToString(n \div 10) \o << Digits[(n % 10) + 1] >>

\* formatMessageLine that cuts the subject to the remaining width and then adds the dots
formatLineOverflowing(isUnread, from, subject) ==
  LET maxLen == CHARS_PER_LINE - 2
      prefix == << IF isUnread THEN "*" ELSE " ", " " >> \o Slice(from, 0, 14)
                  \o << " ", "·", " " >>
      remaining == maxLen - Len(prefix)
  IN  prefix \o (IF Len(subject) > remaining
                 THEN Slice(subject, 0, remaining) \o Ellipsis ELSE subject)

\* formatMessageLine(msg) on msg.isUnread, msg.from and msg.subject
formatLine(isUnread, from, subject) ==
  LET maxLen == CHARS_PER_LINE - 2
      unreadMarker == IF isUnread THEN "*" ELSE " "
      prefix == << unreadMarker, " " >> \o Slice(from, 0, 14) \o << " ", "·", " " >>
      remaining == maxLen - Len(prefix)
  IN  prefix \o (IF Len(subject) > remaining
                 THEN Slice(subject, 0, remaining - 3) \o Ellipsis ELSE subject)

\* the display item setLabels makes of a label: l.name and l.messagesUnread
displayItem(name, messagesUnread) ==
  LET maxLen == CHARS_PER_LINE - 2
      unread == IF messagesUnread > 0
                THEN << " ", "(" >> \o numberToString(messagesUnread) \o << ")" >>
                ELSE << >>
      display == name \o unread
  IN  IF Len(display) > maxLen THEN Slice(display, 0, maxLen - 3) \o Ellipsis ELSE display

\* a message line is made: by setMessages, appendMessages or markMessageRead
FormatMessageLineCalled(isUnread, from, subject) ==
  /\ text' = [fn |-> "formatMessageLine",
              arg |-> [isUnread |-> isUnread, from |-> from, subject |-> subject],
              n |-> 0, index |-> 0, out |-> formatLine(isUnread, from, subject)]
  /\ UNCHANGED textVars

\* a label display item is made by setLabels
LabelDisplayItemCalled(name, messagesUnread) ==
  /\ text' = [fn |-> "labelDisplayItem",
              arg |-> [name |-> name, messagesUnread |-> messagesUnread],
              n |-> 0, index |-> 0, out |-> displayItem(name, messagesUnread)]
  /\ UNCHANGED textVars

NextDisplay ==
  \/ /\ text = NoText
     /\ \E isUnread \in BOOLEAN, f \in 0..MaxFrom, s \in 0..MaxSubject :
          FormatMessageLineCalled(isUnread, Run("f", f), Run("s", s))
  \/ /\ text = NoText
     /\ \E k \in 0..MaxName, messagesUnread \in UnreadCounts :
          LabelDisplayItemCalled(Run("n", k), messagesUnread)

SpecDisplay == Init /\ [][NextDisplay]_vars

EndsWithEllipsis(line) ==
  Len(line) >= 3 /\ SubSeq(line, Len(line) - 2, Len(line)) = Ellipsis

\* C31: every message display line and every label display item has at most
\* CHARS_PER_LINE - 2 = 62 characters, and a truncated subject or label fills
\* that width exactly and ends with an ellipsis
C31_DisplayLinesFit ==
  /\ text.fn \in {"formatMessageLine", "labelDisplayItem"} => Len(text.out) <= 62
  /\ text.fn = "formatMessageLine" =>
       LET head == 5 + Min(Len(text.arg.from), 14)
           cut == Len(text.out) < head + Len(text.arg.subject)
       IN  /\ SubSeq(text.out, 1, head) =
                << IF text.arg.isUnread THEN "*" ELSE " ", " " >>
                  \o Run("f", head - 5) \o << " ", "·", " " >>
           /\ cut => (Len(text.out) = 62 /\ EndsWithEllipsis(text.out))
           /\ ~cut => SubSeq(text.out, head + 1, Len(text.out)) = text.arg.subject
           /\ cut <=> head + Len(text.arg.subject) > 62
  /\ text.fn = "labelDisplayItem" =>
       LET cut == SubSeq(text.out, 1, Min(Len(text.out), Len(text.arg.name))) # text.arg.name
                    \/ Len(text.out) < Len(text.arg.name)
       IN  /\ (Len(text.arg.name) > 62) => (Len(text.out) = 62 /\ EndsWithEllipsis(text.out))
           /\ EndsWithEllipsis(text.out) => Len(text.out) = 62
           /\ cut => (Len(text.out) = 62 /\ EndsWithEllipsis(text.out))

\* a sender cut to 14 characters and a subject of 60 cut to fill the line
C31_Witness ==
  /\ text.fn = "formatMessageLine"
  /\ Len(text.arg.from) = 16 /\ Len(text.arg.subject) = 60
  /\ Len(text.out) = 62
  /\ EndsWithEllipsis(text.out)

(***************************************************************************)
(* Liveness of the gesture chain (SpecQueueFair): the microtask queue runs *)
(* every callback that is ready, and every mailbox call and device call    *)
(* that was issued settles.                                                *)
(***************************************************************************)
\* every step of SpecQueue but the arrival of a gesture
QueueProgress ==
  \/ Start
  \/ ConnectSettles(TRUE)
  \/ \E f \in Flows : LoadingLabelsShown(f, TRUE)
  \/ \E f \in Flows : ListLabelsResolves(f, QueueLabels)
  \/ \E f \in Flows : LabelsShown(f, TRUE)
  \/ StartGesture
  \/ CatchLogs
  \/ \E rendered \in BOOLEAN : RenderSettles(rendered)
  \/ WakeLockSettles
  \/ LoadingMessagesShown(TRUE)
  \/ \E r \in ListMessagesResults(undefined) : ListMessagesResolves(r)
  \/ MessagesShown(TRUE)
  \/ LoadingMoreShown(TRUE)
  \/ \E r \in ListMessagesResults(loc.token) : ListMoreResolves(r)
  \/ MoreShown(TRUE)
  \/ LoadingMessageShown(TRUE)
  \/ \E n \in BodyLineCounts : GetMessageResolves(n)
  \/ ReaderShown(TRUE)

\* a gesture arrives, until the tags of the model are used up
GestureArrivesTagged(kind) ==
  /\ nextSeq < SeqMod - 1
  /\ GestureArrives(kind)

NextQueueFair ==
  \/ \E kind \in QueueKinds : GestureArrivesTagged(kind)
  \/ QueueProgress

SpecQueueFair == InitQueue /\ [][NextQueueFair]_vars /\ WF_vars(QueueProgress)

Waiting(seq) == \E i \in DOMAIN queue : queue[i].seq = seq

\* C32: when every mailbox call and every device call settles, every gesture
\* accepted into the queue is eventually handled; a gesture that arrives while a
\* handler is in flight is only chained: it leaves the handler, the state and
\* the calls in flight as they are
C32_QueueLiveness ==
  /\ \A seq \in 0..(SeqMod - 1) :
       Waiting(seq) ~> (lastSeq = seq /\ pc["gesture"] = "idle" /\ ~dropped)
  /\ [][Len(queue') > Len(queue) =>
          /\ queue' = Append(queue, queue'[Len(queue')])
          /\ UNCHANGED << state, chain, pc, mphase, loc, auth, wantLock, glass, lastSeq,
                          calls, dropped >>]_vars

\* a gesture waits behind a handler that is suspended in a mailbox fetch
C32_Witness ==
  /\ Len(queue) >= 1
  /\ pc["gesture"] \in {"lm_fetch", "om_fetch", "lmm_fetch"}
  /\ lastSeq # queue[1].seq

\* C33: across the render calls on the device adapter, createStartUpPageContainer
\* is called exactly once, on the first render, and every later render uses
\* rebuildPageContainer
C33_StartUpOnce ==
  /\ hub.startups <= 1
  /\ hub.renders >= 1 => hub.startups = 1
  /\ (hub.renders >= 2 /\ adapter.at \in {"startup", "rebuild"}) => adapter.at = "rebuild"

\* once createStartUpPageContainer has succeeded it is never called again, and
\* until then every render calls it
C33_StartUpUntilSuccess ==
  [][/\ (adapter.at = "idle" /\ adapter'.at = "startup") => ~adapter.startupDone
     /\ (adapter.at = "idle" /\ adapter'.at = "rebuild") => adapter.startupDone
     /\ (adapter.startupDone => adapter'.startupDone)]_vars

\* C34: whenever no controller flow is mid-execution, the wake lock is held
\* (acquired and not yet released) only if the mode is Reader
C34_WakeLockScope ==
  (~MainLoading /\ ~GestureRunning /\ wantLock) => state.mode = "READER"

\* a label load of the main flow has left the reader while openMessage was about
\* to take the lock: the lock is wanted in the label list, no flow running
C34_LockedInLabels ==
  /\ pc["main"] = "done" /\ ~GestureRunning
  /\ state.mode = "LABELS"
  /\ wantLock

(***************************************************************************)
(* WakeLockServiceImpl on its own: acquire(), release(), the page's        *)
(* visibility changes and the platform settling lock requests.  The caller *)
(* awaits acquire() and release(), so one of them runs at a time; the      *)
(* visibility handler starts requestLock without awaiting it.              *)
(***************************************************************************)
MaxLocks == 3
MaxRequests == 2

serviceVars == << text, state, started, subscribed, queue, chain, pc, mphase, loc, auth,
                  glass, nextSeq, lastSeq, calls, dropped, adapter, hub, api >>

\* requestLock() up to its await, in a browser that has the API: returns at once
\* when a sentinel is stored, otherwise a platform request is pending, for
\* acquire() or for the handler
requestLock(w, by) ==
  IF w.sentinel # 0 THEN w
  ELSE IF by = "acquire" THEN [w EXCEPT !.caller = "acquire"]
  ELSE [w EXCEPT !.requests = @ + 1]

\* releaseLock() up to its await: sentinel.release() ends the platform lock and
\* fires "release", whose listener clears the field
releaseLock(w) ==
  IF w.sentinel = 0 THEN w
  ELSE [w EXCEPT !.held = @ \ {w.sentinel}, !.sentinel = 0, !.caller = "release"]

\* acquire()
AcquireCalled ==
  /\ wakeLock.caller = "idle"
  /\ wantLock' = TRUE
  /\ wakeLock' = requestLock([wakeLock EXCEPT !.listener = TRUE], "acquire")
  /\ UNCHANGED serviceVars

\* release()
ReleaseCalled ==
  /\ wakeLock.caller = "idle"
  /\ wantLock' = FALSE
  /\ wakeLock' = releaseLock(wakeLock)
  /\ UNCHANGED serviceVars

\* navigator.wakeLock.request settles: granted (only in a visible page) the new
\* lock is stored in the sentinel field; rejected, the failure is logged
LockRequestSettles(by, isGranted) ==
  /\ IF by = "acquire" THEN wakeLock.caller = "acquire" ELSE wakeLock.requests > 0
  /\ isGranted => wakeLock.visible /\ wakeLock.granted < MaxLocks
  /\ LET id == wakeLock.granted + 1
         settled == IF by = "acquire" THEN [wakeLock EXCEPT !.caller = "idle"]
                    ELSE [wakeLock EXCEPT !.requests = @ - 1]
     IN  wakeLock' = IF isGranted
                     THEN [settled EXCEPT !.sentinel = id, !.held = @ \cup {id},
                                          !.granted = id]
                     ELSE settled
  /\ UNCHANGED wantLock
  /\ UNCHANGED serviceVars

\* sentinel.release() has settled: releaseLock clears the field and release() returns
LockReleaseSettles ==
  /\ wakeLock.caller = "release"
  /\ wakeLock' = [wakeLock EXCEPT !.sentinel = 0, !.caller = "idle"]
  /\ UNCHANGED wantLock
  /\ UNCHANGED serviceVars

\* the page is hidden: the browser ends every lock, the "release" listeners clear the field
VisibilityHidden ==
  /\ wakeLock.visible
  /\ wakeLock' = [wakeLock EXCEPT !.visible = FALSE, !.held = {},
                                  !.sentinel = IF wakeLock.held # {} THEN 0 ELSE @]
  /\ UNCHANGED wantLock
  /\ UNCHANGED serviceVars

\* the page is visible again: the handler, if registered, requests the lock when wanted
VisibilityVisible ==
  /\ ~wakeLock.visible
  /\ wakeLock.requests < MaxRequests
  /\ LET w == [wakeLock EXCEPT !.visible = TRUE]
     IN  wakeLock' = IF wakeLock.listener /\ wantLock THEN requestLock(w, "handler") ELSE w
  /\ UNCHANGED wantLock
  /\ UNCHANGED serviceVars

NextWakeLock ==
  \/ AcquireCalled
  \/ ReleaseCalled
  \/ \E by \in {"acquire", "handler"}, isGranted \in BOOLEAN : LockRequestSettles(by, isGranted)
  \/ LockReleaseSettles
  \/ VisibilityHidden
  \/ VisibilityVisible

SpecWakeLock == InitQueue /\ [][NextWakeLock]_vars

\* release() was the last call, it has returned, and no platform request is pending
ReleasedAndSettled ==
  ~wantLock /\ wakeLock.caller = "idle" /\ wakeLock.requests = 0

\* C35: in the wake-lock service, under every interleaving of acquire(), release(),
\* visibility changes and settling platform requests: once release() has been called
\* and every pending request has settled no platform lock is held; at most one
\* platform lock is held at a time; and a request is made on regaining visibility
\* only while the lock is wanted
C35_WakeLockService ==
  /\ [](ReleasedAndSettled => wakeLock.held = {})
  /\ [](Cardinality(wakeLock.held) <= 1)
  /\ [][wakeLock'.requests > wakeLock.requests => wantLock /\ wakeLock'.visible]_vars

\* the part of C35 the code keeps: the visibility handler requests only a wanted lock
C35_ReacquireOnlyWhileWanted ==
  [][wakeLock'.requests > wakeLock.requests => wantLock /\ wakeLock'.visible]_vars

\* a lock is in force although release() has returned and nothing is pending
C35_HeldAfterRelease ==
  ReleasedAndSettled /\ wakeLock.held # {}

\* two platform locks are in force at once
C35_TwoLocksHeld ==
  Cardinality(wakeLock.held) >= 2

\* a flow issues a mailbox fetch (listLabels, listMessages, getMessage) in this step
FetchIssued == \E f \in Flows : calls'[f] > calls[f]

\* C36: the controller never issues a mailbox fetch at a moment when
\* isAuthenticated() is false, in any mode and after any gesture sequence, also
\* after a failed token refresh has removed the stored credential
C36_AuthGate ==
  [][FetchIssued => auth]_vars

\* the gate bootstrap has: in the main flow's start phase a fetch is issued only
\* when a credential is stored
C36_BootstrapGate ==
  [][(calls'["main"] > calls["main"] /\ mphase = "start") => auth]_vars

\* a gesture handler is fetching although no credential is stored
C36_FetchingSignedOut ==
  /\ ~auth
  /\ pc["gesture"] = "ll_fetch"
  /\ calls["gesture"] > 0

\* C37: in every reachable state in which the message list is empty (in particular
\* after backToLabels) no continuation token is held: hasMoreMessages is false
C37_NoStaleToken ==
  state.messages = << >> => ~hasMoreMessages(state)

\* back in the label list, the list emptied, with the token of the label left behind
C37_TokenKeptInLabels ==
  /\ state.mode = "LABELS"
  /\ state.messages = << >>
  /\ hasMoreMessages(state)
  /\ pc["gesture"] = "idle"

\* a string with every white-space character deleted
Unspaced(line) == SelectSeq(line, LAMBDA c : ~IsSpace(c))

\* C38: word wrap loses no content: for every line and every maxWidth >= 1 the lines
\* returned by wrapLine, concatenated and with all white space deleted, are the
\* input line with all white space deleted
C38_WrapLosesNothing ==
  (text.fn = "wrapLine" /\ text.n >= 1) =>
    Unspaced(Flatten(text.out)) = Unspaced(text.arg)

\* nothing is lost whenever the leading white space is shorter than the width
C38_LosslessWithShortIndent ==
  (text.fn = "wrapLine" /\ text.n >= 1 /\ Len(leadingWhitespaceOf(text.arg)) < text.n) =>
    Unspaced(Flatten(text.out)) = Unspaced(text.arg)

\* the indent fills the width and the end of the word is cut off
C38_LetterDropped ==
  /\ text.fn = "wrapLine" /\ text.arg = << " ", " ", "a", "b" >> /\ text.n = 2
  /\ text.out = << << " ", " ", "a" >>, << " ", " " >> >>

\* C40: the content normalizer always yields a non-empty line sequence: for every
\* markup body and every plain-text fallback, also one made only of non-ASCII
\* characters, htmlToPlainText returns at least one line
C40_AtLeastOneLine ==
  text.fn = "htmlToPlainText" => Len(text.out) >= 1

\* at least one line is returned whenever the fallback, if it is used, keeps a
\* printable character that is not white space, or has none at all
C40_OneLineOnPrintableFallback ==
  (/\ text.fn = "htmlToPlainText"
   /\ \/ Len(trim(text.arg.plainFallback)) = 0
      \/ Len(trim(stripNonAscii(text.arg.plainFallback))) > 0) =>
    Len(text.out) >= 1

\* no markup and a fallback of one non-ASCII character: no line at all is returned
C40_NoLineFromForeignFallback ==
  /\ text.fn = "htmlToPlainText"
  /\ text.arg.html = << >>
  /\ text.arg.plainFallback = << NonAscii >>
  /\ text.out = << >>

(***************************************************************************)
(* The controller with a device on which every render call succeeds: the   *)
(* flows of Spec, each await of a glass call fulfilled.  No handler rejects *)
(* then, so the .catch callback of the gesture queue has nothing to log.   *)
(***************************************************************************)
NextView ==
  \/ Start
  \/ \E connected \in BOOLEAN : ConnectSettles(connected)
  \/ AuthRequiredShown(TRUE)
  \/ \E f \in Flows : LoadingLabelsShown(f, TRUE)
  \/ \E f \in Flows, labels \in LabelInputs : ListLabelsResolves(f, labels)
  \/ \E f \in Flows, failure \in Failures : ListLabelsRejects(f, failure)
  \/ \E f \in Flows : LabelsShown(f, TRUE)
  \/ \E f \in Flows : LabelsErrorShown(f, TRUE)
  \/ \E kind \in GestureKind : Deliver(kind)
  \/ RenderSettles(TRUE)
  \/ WakeLockSettles
  \/ LoadingMessagesShown(TRUE)
  \/ \E r \in ListMessagesResults(undefined) : ListMessagesResolves(r)
  \/ \E failure \in Failures : ListMessagesRejects(failure)
  \/ MessagesShown(TRUE)
  \/ ErrorShown(TRUE)
  \/ LoadingMoreShown(TRUE)
  \/ \E r \in ListMessagesResults(loc.token) : ListMoreResolves(r)
  \/ \E failure \in Failures : ListMoreRejects(failure)
  \/ MoreShown(TRUE)
  \/ LoadingMessageShown(TRUE)
  \/ \E n \in BodyLineCounts : GetMessageResolves(n)
  \/ \E failure \in Failures : GetMessageRejects(failure)
  \/ ReaderShown(TRUE)
  \/ SignIn

SpecView == Init /\ [][NextView]_vars

\* the calls that put the view of a mode on the device
ViewsOf(mode) ==
  IF mode = "READER" THEN {Call("showReader", "page"), Call("updateReaderText", "page")}
  ELSE IF mode = "LABELS"
    THEN {Call("showLabels", "list"), Call("updateLabelListText", "list")}
  ELSE IF mode = "MESSAGE_LIST"
    THEN {Call("showMessageList", "list"), Call("updateMessageListText", "list"),
          Call("showMessage", "emptyLabel")}
  ELSE IF mode = "ERROR"
    THEN {Call("showMessage", "labelsError"), Call("showMessage", "messagesError"),
          Call("showMessage", "readError")}
  ELSE IF mode = "AUTH_REQUIRED" THEN {Call("showMessage", "authRequired")}
  ELSE {NoCall}

\* no controller flow is mid-execution
NoFlowRunning == \A t \in Tasks : pc[t] \in {"idle", "done"}

\* C39: every device render call succeeding, whenever no controller flow is
\* mid-execution the last view sent to the device is the one of the current mode
\* (reader page; label list; message list or the empty-label message; error
\* message; sign-in message), under every interleaving of gesture handlers and
\* the label loads of bootstrap and refreshAfterAuth
C39_ViewMatchesMode ==
  (NoFlowRunning /\ state.mode # "BOOT") => glass \in ViewsOf(state.mode)

\* the label load of refreshAfterAuth has overtaken a lazy fetch of the gesture
\* handler: the mode is Labels and the device shows the message list
C39_MessageListShownInLabels ==
  /\ NoFlowRunning
  /\ state.mode = "LABELS"
  /\ glass = Call("updateMessageListText", "list")

====
